---- MODULE Spec2Model ----
(***************************************************************************)
(* Settlement pipeline of the SPECIES marketplace: Validator, Classifier,  *)
(* Matching Service, Cashier (ledger poster), Asset Manager (transfer      *)
(* executor) and Floor Manager (reconciler), connected by an at-least-once *)
(* event bus.  A message published on a topic stays deliverable, so every  *)
(* handler may run again on a message it has already processed.            *)
(***************************************************************************)
EXTENDS Integers, Sequences, FiniteSets, TLC

\* ------------------------------------------------------------------------
\* Bounds of the model
\* ------------------------------------------------------------------------
MaxAmount == 1

\* Largest amount of an order of the matching specification.
MaxOrder == 2

MaxMatch == 1

MaxReceipts == 2

MaxCalls == 2

Events == {"e1", "e2"}

\* The pipeline specification follows one request end to end; the matching
\* specification has every event as a concurrent order.
PipelineEvents == {"e1"}

ListingIds == {"L1", "L2"}

MaxListing == 3

MaxTime == 3

\* Concurrent calls of Verify, the clock of the verifier, and the most
\* requests counted in one generation of a closed breaker.
MaxCallers == 4

MaxClock == 4

MaxCounted == 3

\* Deliveries of one 'order.classified' message to the Matching Service.
MaxDeliveries == 2

\* Tool calls the MCP servers receive.
MaxToolCalls == 3

\* Submissions the gateway receives, concurrently or one after another.
MaxSubmissions == 3

NoReq == [kind |-> "none"]

NoMsg == [topic |-> "none"]

\* ------------------------------------------------------------------------
\* Program constants
\* ------------------------------------------------------------------------
maxAttempts == 3

TreasuryUserId == "usr-treasury-vault-system"

\* reservations.defaultTTL (5 minutes) is the unit of the clock.
ReservationTTL == 1

\* listings.defaultDuration (48 hours), scaled to the clock of the model.
ListingDuration == 2

\* listings.minAmount (5000), scaled to the amounts of the model.
minAmount == 2

\* getUSDTPrice(): USDT per unit of SPECIES, in the units of the model.
UsdtPrice == 2

\* validation_requirements.min_confirmations
MinConfirmations == 12

\* MAX_PAYMENT_AGE_MINUTES
MaxPaymentAgeMinutes == 60

\* gobreaker.Settings of circuit.NewBreaker: MaxRequests, the request
\* minimum and the failure ratio 0.6 = 3/5 of ReadyToTrip, and Interval
\* (10 s) and Timeout (30 s) in units of 10 s.
BreakerMaxRequests == 3

BreakerMinRequests == 3

FailureRatioNum == 3

FailureRatioDen == 5

BreakerInterval == 1

BreakerTimeout == 3

NoListing == [status |-> "NONE"]

NoRegistry == [none |-> "none"]

Intents == {"BUY_TREASURY", "BUY_MARKET", "SELL_MARKET", "TRANSFER"}

\* UserRole, and the accounts the registry knows.
UserRoles == {"trader", "treasury"}

Accounts == {"alice", "bob"}

Registries == [Accounts -> UserRoles]

ProofKinds == {"none", "npmt", "txhash", "malformed"}

\* EventRequest as admitted by the gateway: the fields the pipeline reads.
Requests ==
  [kind : {"req"}, from : {"alice"}, to : {"treasury", "bob"},
   amount : 1..MaxAmount, proof : ProofKinds]

VARIABLES
  request,          \* event_ingress: the admitted request of each eventId
  orderValidated,   \* eventIds with an 'order.validated' message on the bus
  paymentFailed,    \* reason of the last 'payment.failed' message, or "none"
  verificationCache,\* cached verification result of the proof of each eventId
  orderClassified,  \* the 'order.classified' message of each eventId
  userRegistry,     \* Marketplace User Registry: the role of each account
  backendPayment,   \* what the payment backend holds for the proof of each
                    \* eventId: a NOWPayments payment or a TRON transaction
  breaker,          \* the circuit breaker of each verification backend
  inFlight,         \* calls on the network, per backend: those of the
                    \* current generation of the breaker and the stale ones
  proofCache,       \* DualPathValidator: is a valid result cached?
  lastVerify,       \* how the last finished call of Verify ended, and
                    \* whether it had called the secondary backend's breaker
  mcpCalls,         \* tool calls of the MCP servers, by caller: the
                    \* server, the tool and how far the handler got
  mcpPosted,        \* requests the MCP servers sent to the Marketplace
                    \* API, each with the confirmation it was sent under
  ingressCalls,     \* calls of submitEventRequest, by caller: what the
                    \* call has read and how it was answered
  orderReceived,    \* bodies written to the outbox ('order.received'),
                    \* per eventId, in order
  fills,            \* match reservations stored (and published in
                    \* 'order.matched') per eventId; matchId = index
  matchingThrown,   \* did the last processClassifiedOrder of the eventId
                    \* throw ("No fills created")?
  paymentConfirmed, \* 'payment.confirmed' messages on the bus
  fireflyLedger,    \* external ledger: journals keyed by external_id
  fireflyCalls,     \* number of postings submitted to the ledger, per key
  postingRef,       \* local posting references (key -> stored?)
  ledgerPosted,     \* number of 'ledger.posted' messages per key
  cashierThrown,    \* the error the Cashier last threw for a key, or "none"
  custodianKeys,    \* request keys (X-Request-Id) the custodian has executed
  assetMoves,       \* number of asset movements at the custodian, per fill
  ownershipChanged, \* 'ownership.changed' messages (transfer records)
  ownershipPublished, \* number of 'ownership.changed' publications per fill
  transferFailed,   \* reason of the 'transfer.failed' message per fill
  receipts,         \* receipts stored per eventId, in storage order
  oracleResponse,   \* the last answer of the ownership oracle, per eventId
  listings,         \* the listings table, by listingId
  allowPartialFills,\* matching.allowPartialFills of the configuration
  now               \* the clock, in units of the reservation TTL

verifierVars == <<backendPayment, breaker, inFlight, proofCache, lastVerify>>

clientVars == <<mcpCalls, mcpPosted>>

gatewayVars == <<ingressCalls, orderReceived>>

ingressVars ==
  <<request, orderValidated, paymentFailed, verificationCache,
    orderClassified, userRegistry, verifierVars, gatewayVars, clientVars>>

matchVars == <<fills, matchingThrown>>

listingVars == <<listings, allowPartialFills>>

cashierVars ==
  <<fireflyLedger, fireflyCalls, postingRef, ledgerPosted, cashierThrown>>

assetVars ==
  <<custodianKeys, assetMoves, ownershipChanged, ownershipPublished,
    transferFailed>>

floorVars == <<receipts, oracleResponse>>

vars ==
  <<ingressVars, matchVars, paymentConfirmed, cashierVars, assetVars,
    floorVars, listingVars, now>>

MatchIds == 0..MaxMatch

\* ------------------------------------------------------------------------
\* MCP servers: tool calls that write to the Marketplace API
\* ------------------------------------------------------------------------
ToolCallers == 1..MaxToolCalls

\* A tool call that has not been made.
NoToolCall == [stage |-> "idle"]

InitClient ==
  /\ mcpCalls = [c \in ToolCallers |-> NoToolCall]
  /\ mcpPosted = {}

\* ------------------------------------------------------------------------
\* Marketplace API: admission of event requests
\* ------------------------------------------------------------------------
Submitters == 1..MaxSubmissions

\* A call of submitEventRequest that has not been made.
NoCall == [stage |-> "idle"]

\* The gateway holds no call and has written nothing to the outbox.
InitGateway ==
  /\ ingressCalls = [c \in Submitters |-> NoCall]
  /\ orderReceived = [e \in Events |-> <<>>]

Keys == Events \X MatchIds

\* ------------------------------------------------------------------------
\* Validator
\* ------------------------------------------------------------------------
isNOWPaymentId(proof) == proof = "npmt"

isTronTxHash(proof) == proof = "txhash"

\* The named sub-checks of a VerificationResult.  contract_check, from_check
\* and to_check exist on the direct-chain path only; currency_check on the
\* processor path only.
NOWPaymentsChecks ==
  {"status_check", "amount_check", "currency_check", "confirmation_check",
   "timestamp_check"}

TronChecks ==
  {"contract_check", "from_check", "to_check", "amount_check",
   "confirmation_check", "status_check", "timestamp_check"}

\* A backend answer: for every sub-check of the path, whether it passed.
BackendAnswers(path) == [path -> BOOLEAN]

VerificationValid(checks) == \A c \in DOMAIN checks : checks[c]

Truthy(checks, c) == c \in DOMAIN checks /\ checks[c]

determineFailureReason(checks) ==
  IF ~Truthy(checks, "confirmation_check") THEN "insufficient.confirmations"
  ELSE IF ~Truthy(checks, "amount_check") THEN "amount.mismatch"
  ELSE IF ~Truthy(checks, "status_check") THEN "payment.not.complete"
  ELSE IF ~Truthy(checks, "contract_check") THEN "invalid.token"
  ELSE "validation.failed"

\* validatePaymentProof without its test of verificationResult.valid.
validatePaymentProofMutant(req, checks, backendThrows) ==
  IF req.proof = "none" THEN "proof.missing"
  ELSE IF ~(isNOWPaymentId(req.proof) \/ isTronTxHash(req.proof))
    THEN "proof.invalid_format"
  ELSE IF backendThrows THEN "verification.error"
  ELSE "validated"

\* Outcome of validatePaymentProof for a request and a backend behaviour:
\* "validated" or the reason of the payment.failed message.
validatePaymentProof(req, checks, backendThrows) ==
  IF req.proof = "none" THEN "proof.missing"
  ELSE IF ~(isNOWPaymentId(req.proof) \/ isTronTxHash(req.proof))
    THEN "proof.invalid_format"
  ELSE IF backendThrows THEN "verification.error"
  ELSE IF ~VerificationValid(checks) THEN determineFailureReason(checks)
  ELSE "validated"

ChecksFor(req) ==
  IF isNOWPaymentId(req.proof) THEN BackendAnswers(NOWPaymentsChecks)
  ELSE BackendAnswers(TronChecks)

\* The gateway admits a request under a fresh eventId.
Admit(e, r) ==
  /\ e \in PipelineEvents
  /\ request[e] = NoReq
  /\ request' = [request EXCEPT ![e] = r]
  /\ UNCHANGED <<gatewayVars, clientVars, orderValidated, paymentFailed, verificationCache,
                 orderClassified, userRegistry, verifierVars, matchVars,
                 paymentConfirmed, cashierVars, assetVars, floorVars,
                 listingVars, now>>

NoResult == [none |-> TRUE]

\* The request reaches a verifier, which returns a VerificationResult.
Verified(req, backendThrows) ==
  /\ req.proof # "none"
  /\ isNOWPaymentId(req.proof) \/ isTronTxHash(req.proof)
  /\ ~backendThrows

\* Validator handles (a delivery of) the admitted request: a recently
\* verified proof is answered from the cache, any other is verified with the
\* backend, and the verification result is stored in the cache.
ValidatorValidate(e, checks, backendThrows) ==
  /\ request[e] # NoReq
  /\ LET hit == verificationCache[e] # NoResult
         result == IF hit THEN verificationCache[e] ELSE checks
         throws == ~hit /\ backendThrows
         out == validatePaymentProof(request[e], result, throws)
     IN
       /\ verificationCache' =
            IF Verified(request[e], throws)
            THEN [verificationCache EXCEPT ![e] = result]
            ELSE verificationCache
       /\ IF out = "validated"
          THEN /\ orderValidated' = orderValidated \cup {e}
               /\ UNCHANGED paymentFailed
          ELSE /\ paymentFailed' = [paymentFailed EXCEPT ![e] = out]
               /\ UNCHANGED orderValidated
  /\ UNCHANGED <<request, gatewayVars, clientVars, orderClassified, userRegistry,
                 verifierVars,
                 matchVars, paymentConfirmed, cashierVars, assetVars,
                 floorVars, listingVars, now>>

\* ------------------------------------------------------------------------
\* Verifiers: the VerificationResult computed from what the backend holds
\* ------------------------------------------------------------------------
\* The USDT amounts a payment can carry.
PaidAmounts == 1..(MaxAmount * UsdtPrice)

ConfirmationCounts == {3, MinConfirmations - 1, MinConfirmations}

\* Age of a payment in minutes: fresh, or older than the window.
PaymentAges == {0, MaxPaymentAgeMinutes + 1}

\* GET /payment/{id}: the fields of a NOWPayments payment verifyPayment reads.
NOWPayments ==
  [backend : {"nowpayments"}, payment_status : {"finished", "waiting"},
   price_amount : PaidAmounts, actually_paid : PaidAmounts,
   price_currency : {"USDT", "BTC"}, confirmations : ConfirmationCounts,
   age : PaymentAges]

\* The decoded TRC20 transfer of a TRON transaction, with its confirmations.
TronTransactions ==
  [backend : {"tron"}, contract : {"USDT_CONTRACT", "other"},
   from : {"alice", "mallory"}, to : {"merchant", "mallory"},
   value : PaidAmounts, confirmations : ConfirmationCounts,
   contractRet : {"SUCCESS", "REVERT"}, age : PaymentAges]

NoPayment == [backend |-> "none"]

isWithinTimeWindow(age) == age <= MaxPaymentAgeMinutes

extractFromAddress(req) == req.from

getPaymentDestination(req) == "merchant"

\* eventRequest.amount * getUSDTPrice()
ExpectedAmount(req) == req.amount * UsdtPrice

\* NOWPaymentsVerifier.verifyPayment: the validationChecks of a payment.
\* Amounts are whole units, so |a - b| < 0.01 is a = b.
verifyPayment(payment, expectedAmount) ==
  [status_check |-> payment.payment_status = "finished",
   amount_check |-> payment.price_amount = expectedAmount,
   currency_check |-> payment.price_currency = "USDT",
   confirmation_check |-> payment.confirmations >= MinConfirmations,
   timestamp_check |-> isWithinTimeWindow(payment.age)]

\* TronVerifier.verifyTransaction: the validationChecks of a transaction.
verifyTransaction(tx, fromAddress, toAddress, expectedAmount) ==
  [contract_check |-> tx.contract = "USDT_CONTRACT",
   from_check |-> tx.from = fromAddress,
   to_check |-> tx.to = toAddress,
   amount_check |-> tx.value = expectedAmount,
   confirmation_check |-> tx.confirmations >= MinConfirmations,
   status_check |-> tx.contractRet = "SUCCESS",
   timestamp_check |-> isWithinTimeWindow(tx.age)]

\* The verification validatePaymentProof runs for the proof of a request.
VerificationResultOf(req, payment) ==
  IF isNOWPaymentId(req.proof)
  THEN verifyPayment(payment, ExpectedAmount(req))
  ELSE verifyTransaction(payment, extractFromAddress(req),
                         getPaymentDestination(req), ExpectedAmount(req))

\* What a backend can hold for the proof of a request.
PaymentsFor(req) ==
  IF isNOWPaymentId(req.proof) THEN NOWPayments
  ELSE IF isTronTxHash(req.proof) THEN TronTransactions
  ELSE {NoPayment}

\* The Validator handles the request of e, the backend answering with the
\* payment it holds.
ValidatorVerify(e) ==
  /\ request[e] # NoReq
  /\ backendPayment[e] # NoPayment
  /\ ValidatorValidate(e, VerificationResultOf(request[e], backendPayment[e]),
                       FALSE)

\* ------------------------------------------------------------------------
\* Circuit breaker (gobreaker, as configured by circuit.NewBreaker)
\* ------------------------------------------------------------------------
Backends == {"moralis", "nowpayments"}

\* The zero time of an expiry.
NoExpiry == 0 - 1

\* toNewGeneration: the counts are cleared and the expiry follows the state.
NewGeneration(state, t) ==
  [state |-> state, requests |-> 0, totalFailures |-> 0,
   consecutiveSuccesses |-> 0,
   expiry |-> IF state = "closed" THEN t + BreakerInterval
              ELSE IF state = "open" THEN t + BreakerTimeout
              ELSE NoExpiry]

\* currentState: a closed breaker whose interval has elapsed starts a new
\* generation, an open breaker whose timeout has elapsed becomes half-open.
currentState(br, t) ==
  IF br.state = "closed" /\ br.expiry # NoExpiry /\ br.expiry < t
  THEN NewGeneration("closed", t)
  ELSE IF br.state = "open" /\ br.expiry < t
  THEN NewGeneration("half-open", t)
  ELSE br

\* The breaker is in another generation than before.
GenerationChanged(old, new) ==
  old.state # new.state \/ old.expiry # new.expiry

\* ReadyToTrip: counts.Requests >= 3 && TotalFailures / Requests >= 0.6
ReadyToTrip(br) ==
  /\ br.requests >= BreakerMinRequests
  /\ br.totalFailures * FailureRatioDen >= br.requests * FailureRatioNum

\* beforeRequest without the rejection in the open state.
beforeRequestNoFailFast(br, t) ==
  LET cur == currentState(br, t) IN
    IF cur.state = "half-open" /\ cur.requests >= BreakerMaxRequests
    THEN [ok |-> FALSE, br |-> cur]
    ELSE [ok |-> TRUE, br |-> [cur EXCEPT !.requests = @ + 1]]

\* beforeRequest without the limit on the requests of the half-open state.
beforeRequestNoTrialLimit(br, t) ==
  LET cur == currentState(br, t) IN
    IF cur.state = "open" THEN [ok |-> FALSE, br |-> cur]
    ELSE [ok |-> TRUE, br |-> [cur EXCEPT !.requests = @ + 1]]

\* beforeRequest: ErrOpenState while open, ErrTooManyRequests when half-open
\* with MaxRequests requests admitted; otherwise the request is counted.
beforeRequest(br, t) ==
  LET cur == currentState(br, t) IN
    IF cur.state = "open" THEN [ok |-> FALSE, br |-> cur]
    ELSE IF cur.state = "half-open" /\ cur.requests >= BreakerMaxRequests
    THEN [ok |-> FALSE, br |-> cur]
    ELSE [ok |-> TRUE, br |-> [cur EXCEPT !.requests = @ + 1]]

onSuccess(br, t) ==
  LET counted == [br EXCEPT !.consecutiveSuccesses = @ + 1] IN
    IF br.state = "half-open"
         /\ counted.consecutiveSuccesses >= BreakerMaxRequests
    THEN NewGeneration("closed", t)
    ELSE counted

onFailure(br, t) ==
  LET counted == [br EXCEPT !.totalFailures = @ + 1,
                            !.consecutiveSuccesses = 0] IN
    IF br.state = "half-open" THEN NewGeneration("open", t)
    ELSE IF br.state = "closed" /\ ReadyToTrip(counted)
    THEN NewGeneration("open", t)
    ELSE counted

\* afterRequest: the result of a request of an earlier generation is dropped.
afterRequest(br, t, stale, success) ==
  LET cur == currentState(br, t) IN
    IF stale \/ GenerationChanged(br, cur) THEN cur
    ELSE IF success THEN onSuccess(cur, t)
    ELSE onFailure(cur, t)

\* ------------------------------------------------------------------------
\* DualPathValidator.Verify
\* ------------------------------------------------------------------------
\* What a verification backend does with a call: a valid result, an invalid
\* result, or an error (a timeout included).
BackendReplies == {"valid", "invalid", "error"}

NoCalls == [fresh |-> 0, stale |-> 0]

\* The end of a call of Verify: a result from the cache or from a backend,
\* the error "payment verification failed", or the panic of reading
\* result.Valid through a nil result.
Ended(result, secondary) == [result |-> result, secondary |-> secondary]

InitDualPath ==
  /\ breaker = [b \in Backends |-> NewGeneration("closed", 0)]
  /\ inFlight = [b \in Backends |-> NoCalls]
  /\ proofCache = FALSE
  /\ lastVerify = Ended("none", FALSE)

Calls(b) == inFlight[b].fresh + inFlight[b].stale

\* The calls in flight at b after its breaker went from old to new: a new
\* generation makes every call in flight a stale one.
Aged(calls, old, new) ==
  IF GenerationChanged(old, new)
  THEN [fresh |-> 0, stale |-> calls.fresh + calls.stale]
  ELSE calls

\* Execute on the breaker of b up to the call of the backend: the breaker
\* and the calls in flight afterwards, and whether the call was let through.
ExecuteBegin(b) ==
  LET r == beforeRequest(breaker[b], now)
      aged == Aged(inFlight[b], breaker[b], r.br)
  IN [ok |-> r.ok, br |-> r.br,
      calls |-> IF r.ok THEN [aged EXCEPT !.fresh = @ + 1] ELSE aged]

\* Execute on the breaker of b from the return of the backend.
ExecuteEnd(b, stale, reply) ==
  LET br == afterRequest(breaker[b], now, stale, reply # "error")
      left == IF stale THEN [inFlight[b] EXCEPT !.stale = @ - 1]
              ELSE [inFlight[b] EXCEPT !.fresh = @ - 1]
  IN [br |-> br, calls |-> Aged(left, breaker[b], br)]

\* The request counter of a closed breaker has not reached its cap.
Countable(b) ==
  breaker[b].state = "closed" => breaker[b].requests < MaxCounted

OtherVerifierVarsUnchanged ==
  UNCHANGED <<request, gatewayVars, clientVars, orderValidated, paymentFailed,
              verificationCache, orderClassified, userRegistry, backendPayment, matchVars,
              paymentConfirmed, cashierVars, assetVars, floorVars,
              listingVars>>

\* Verify from its start to the call of the primary backend.  A cached
\* result is returned at once.  When the breaker of the primary rejects the
\* call, result and err are both still nil and result.Valid is read.
VerifyStart ==
  /\ Calls("moralis") + Calls("nowpayments") < MaxCallers
  /\ Countable("moralis")
  /\ IF proofCache
     THEN /\ lastVerify' = Ended("cached", FALSE)
          /\ UNCHANGED <<breaker, inFlight, proofCache>>
     ELSE LET x == ExecuteBegin("moralis") IN
            /\ breaker' = [breaker EXCEPT !["moralis"] = x.br]
            /\ inFlight' = [inFlight EXCEPT !["moralis"] = x.calls]
            /\ lastVerify' = IF x.ok THEN lastVerify
                             ELSE Ended("panic", FALSE)
            /\ UNCHANGED proofCache
  /\ UNCHANGED now
  /\ OtherVerifierVarsUnchanged

\* Verify from the return of the primary backend: a valid result is cached
\* and returned, anything else falls back to the secondary backend, and a
\* call its breaker rejects ends Verify with the error.
PrimaryReturns(stale, reply) ==
  /\ IF stale THEN inFlight["moralis"].stale > 0
     ELSE inFlight["moralis"].fresh > 0
  /\ Countable("nowpayments")
  /\ LET p == ExecuteEnd("moralis", stale, reply) IN
       IF reply = "valid"
       THEN /\ breaker' = [breaker EXCEPT !["moralis"] = p.br]
            /\ inFlight' = [inFlight EXCEPT !["moralis"] = p.calls]
            /\ proofCache' = TRUE
            /\ lastVerify' = Ended("valid", FALSE)
       ELSE LET x == ExecuteBegin("nowpayments") IN
            /\ breaker' = [breaker EXCEPT !["moralis"] = p.br,
                                          !["nowpayments"] = x.br]
            /\ inFlight' = [inFlight EXCEPT !["moralis"] = p.calls,
                                            !["nowpayments"] = x.calls]
            /\ lastVerify' = IF x.ok THEN lastVerify
                             ELSE Ended("error", TRUE)
            /\ UNCHANGED proofCache
  /\ UNCHANGED now
  /\ OtherVerifierVarsUnchanged

\* Verify from the return of the secondary backend to its end.
SecondaryReturns(stale, reply) ==
  /\ IF stale THEN inFlight["nowpayments"].stale > 0
     ELSE inFlight["nowpayments"].fresh > 0
  /\ LET x == ExecuteEnd("nowpayments", stale, reply) IN
       /\ breaker' = [breaker EXCEPT !["nowpayments"] = x.br]
       /\ inFlight' = [inFlight EXCEPT !["nowpayments"] = x.calls]
  /\ proofCache' = (proofCache \/ reply = "valid")
  /\ lastVerify' = Ended(IF reply = "valid" THEN "valid" ELSE "error", TRUE)
  /\ UNCHANGED now
  /\ OtherVerifierVarsUnchanged

\* The cached result reaches its TTL.
CacheExpires ==
  /\ proofCache
  /\ proofCache' = FALSE
  /\ UNCHANGED <<breaker, inFlight, lastVerify, now>>
  /\ OtherVerifierVarsUnchanged

ClockTick ==
  /\ now < MaxClock
  /\ now' = now + 1
  /\ UNCHANGED verifierVars
  /\ OtherVerifierVarsUnchanged

\* ------------------------------------------------------------------------
\* Classifier
\* ------------------------------------------------------------------------
\* to.toLowerCase().includes('treasury'), over the account names of the model
IncludesTreasury(to) == to \in {"treasury", TreasuryUserId}

isTreasuryDestination(to, registry) ==
  \/ IncludesTreasury(to)
  \/ (registry # NoRegistry /\ to \in DOMAIN registry
        /\ registry[to] = "treasury")

\* The decision tree of decide(); event.listingId = "" and
\* event.putProceeds = FALSE stand for absent fields.
decideIntent(event, registry) ==
  IF event.listingId # "" THEN "BUY_MARKET"
  ELSE IF isTreasuryDestination(event.to, registry) THEN "BUY_TREASURY"
  ELSE IF event.putProceeds THEN "SELL_MARKET"
  ELSE "TRANSFER"

decide(event, registry) ==
  [topic |-> "order.classified", eventId |-> event.eventId,
   intent |-> decideIntent(event, registry), amount |-> event.amount,
   listingId |-> event.listingId, from |-> event.from, to |-> event.to]

\* processEvent handing decide() the registry the Classifier was built with.
ClassifierInputWithRegistry(e) ==
  [event |-> [eventId |-> e, from |-> request[e].from, to |-> request[e].to,
              amount |-> request[e].amount, listingId |-> "",
              putProceeds |-> FALSE],
   userRegistry |-> userRegistry]

\* The ClassifierInput processEvent builds: the eventId, from, to and amount
\* of the validated order, and neither a listingId, putProceeds nor a
\* registry.
ClassifierInput(e) ==
  [event |-> [eventId |-> e, from |-> request[e].from, to |-> request[e].to,
              amount |-> request[e].amount, listingId |-> "",
              putProceeds |-> FALSE],
   userRegistry |-> NoRegistry]

ClassifierProcessEvent(e) ==
  /\ e \in orderValidated
  /\ orderClassified' =
       [orderClassified EXCEPT ![e] =
          decide(ClassifierInput(e).event, ClassifierInput(e).userRegistry)]
  /\ UNCHANGED <<request, gatewayVars, clientVars, orderValidated, paymentFailed,
                 verificationCache, userRegistry, verifierVars, matchVars, paymentConfirmed,
                 cashierVars, assetVars, floorVars, listingVars, now>>

\* syncUserRegistry: the scheduled sync from ProfileTray rewrites the roles
\* of the local registry.
syncUserRegistry(registry) ==
  /\ registry # userRegistry
  /\ userRegistry' = registry
  /\ UNCHANGED <<request, gatewayVars, clientVars, orderValidated, paymentFailed,
                 verificationCache, orderClassified, verifierVars, matchVars, paymentConfirmed,
                 cashierVars, assetVars, floorVars, listingVars, now>>

\* ------------------------------------------------------------------------
\* Matching Service
\* ------------------------------------------------------------------------
Fill(matchId, event, buyer, seller, amount, listingId, t) ==
  [matchId |-> matchId, eventId |-> event.eventId, buyerId |-> buyer,
   sellerId |-> seller, fillAmount |-> amount, listingId |-> listingId,
   requiresBuyerProof |-> FALSE, status |-> "RESERVED",
   expiresAt |-> t + ReservationTTL]

createTreasuryFill(event, matchId, t) ==
  <<Fill(matchId, event, event.from, TreasuryUserId, event.amount, "", t)>>

createTransferFill(event, matchId, t) ==
  <<Fill(matchId, event, event.to, event.from, event.amount, "", t)>>

\* A listing is open by its status alone.
ListingOpenByStatus(l, t) ==
  /\ l # NoListing
  /\ l.status \in {"ACTIVE", "PARTIALLY_FILLED"}

\* Expiry of a listing is a read-time predicate.
ListingOpen(l, t) ==
  /\ l # NoListing
  /\ l.status \in {"ACTIVE", "PARTIALLY_FILLED"}
  /\ ~(t > l.expiresAt)

\* MarketFillAmount without the comparison against the available amount.
MarketFillAmountUnchecked(ls, listingId, amount, t, partial) ==
  IF listingId \notin DOMAIN ls THEN 0
  ELSE IF ~ListingOpen(ls[listingId], t) THEN 0
  ELSE amount

\* The amount a purchase of `amount` reserves against listing l: 0 stands
\* for the errors listing not found, listing expired, listing insufficient.
MarketFillAmount(ls, listingId, amount, t, partial) ==
  IF listingId \notin DOMAIN ls THEN 0
  ELSE IF ~ListingOpen(ls[listingId], t) THEN 0
  ELSE IF ls[listingId].availableAmount >= amount THEN amount
  ELSE IF partial THEN ls[listingId].availableAmount
  ELSE 0

createMarketFills(event, matchId, t, ls, partial) ==
  LET q == MarketFillAmount(ls, event.listingId, event.amount, t, partial) IN
    IF q = 0 THEN <<>>
    ELSE <<Fill(matchId, event, event.from, ls[event.listingId].sellerId, q,
                event.listingId, t)>>

\* The listing after `q` units were taken out of (q > 0) or returned to
\* (q < 0) its available amount.
Decrement(l, q) ==
  LET a == l.availableAmount - q IN
    [l EXCEPT !.availableAmount = a,
              !.status = IF a = 0 THEN "FILLED"
                         ELSE IF a = l.amount THEN "ACTIVE"
                         ELSE "PARTIALLY_FILLED"]

FreeListingIds(ls) == {id \in ListingIds : ls[id] = NoListing}

NewListing(event, t) ==
  [status |-> "ACTIVE", sellerId |-> event.from, amount |-> event.amount,
   availableAmount |-> event.amount, expiresAt |-> t + ListingDuration]

createFills(event, matchId, t, ls, partial) ==
  CASE event.intent = "BUY_TREASURY" -> createTreasuryFill(event, matchId, t)
    [] event.intent = "BUY_MARKET" ->
         createMarketFills(event, matchId, t, ls, partial)
    [] event.intent = "SELL_MARKET" -> <<>>
    [] event.intent = "TRANSFER" -> createTransferFill(event, matchId, t)

\* The listings table after createFills ran for the event.
listingsAfterCreateFills(event, newFills, t, ls) ==
  CASE event.intent = "BUY_MARKET" /\ newFills # <<>> ->
         [ls EXCEPT ![event.listingId] = Decrement(@, newFills[1].fillAmount)]
    [] event.intent = "SELL_MARKET" /\ event.amount >= minAmount
         /\ FreeListingIds(ls) # {} ->
         [ls EXCEPT ![CHOOSE id \in FreeListingIds(ls) : TRUE] =
            NewListing(event, t)]
    [] OTHER -> ls

\* processClassifiedOrder for (a delivery of) the order.classified message
\* of e.  With no fills the handler throws: nothing is stored or published.
processClassifiedOrder(e, deliveries) ==
  /\ orderClassified[e] # NoMsg
  /\ Len(fills[e]) < deliveries
  /\ LET event == orderClassified[e]
         newFills == createFills(event, Len(fills[e]) + 1, now, listings,
                                 allowPartialFills)
     IN
       /\ listings' = listingsAfterCreateFills(event, newFills, now, listings)
       /\ fills' = [fills EXCEPT ![e] = @ \o newFills]
       /\ matchingThrown' = [matchingThrown EXCEPT ![e] = Len(newFills) = 0]
  /\ UNCHANGED <<ingressVars, paymentConfirmed, cashierVars, assetVars,
                 floorVars, allowPartialFills, now>>

\* The deliveries of 'order.classified' the pipeline follows: as many as an
\* eventId has matchIds.
MatchingProcessClassifiedOrder(e) == processClassifiedOrder(e, MaxMatch)

\* A release that marks the reservation EXPIRED and returns nothing.
ReleaseExpiredReservationLost(e, m) ==
  /\ m \in 1..Len(fills[e])
  /\ fills[e][m].status = "RESERVED"
  /\ now > fills[e][m].expiresAt
  /\ fills' = [fills EXCEPT ![e][m].status = "EXPIRED"]
  /\ UNCHANGED matchingThrown
  /\ UNCHANGED <<ingressVars, paymentConfirmed, cashierVars, assetVars,
                 floorVars, listingVars, now>>

\* A release that does not test whether the reservation was released before.
ReleaseExpiredReservationTwice(e, m) ==
  /\ m \in 1..Len(fills[e])
  /\ fills[e][m].status \in {"RESERVED", "EXPIRED"}
  /\ now > fills[e][m].expiresAt
  /\ fills' = [fills EXCEPT ![e][m].status = "EXPIRED"]
  /\ UNCHANGED matchingThrown
  /\ listings' =
       IF fills[e][m].listingId = "" THEN listings
       ELSE [listings EXCEPT ![fills[e][m].listingId] =
               Decrement(@, 0 - fills[e][m].fillAmount)]
  /\ UNCHANGED <<ingressVars, paymentConfirmed, cashierVars, assetVars,
                 floorVars, allowPartialFills, now>>

\* A reservation is a lease: once its expiry has elapsed without it being
\* CONFIRMED, whoever observes it (a stage or the sweeper) marks it EXPIRED
\* and returns its amount to the parent listing, in one transaction.
ReleaseExpiredReservation(e, m) ==
  /\ m \in 1..Len(fills[e])
  /\ fills[e][m].status = "RESERVED"
  /\ now > fills[e][m].expiresAt
  /\ fills' = [fills EXCEPT ![e][m].status = "EXPIRED"]
  /\ UNCHANGED matchingThrown
  /\ listings' =
       IF fills[e][m].listingId = "" THEN listings
       ELSE [listings EXCEPT ![fills[e][m].listingId] =
               Decrement(@, 0 - fills[e][m].fillAmount)]
  /\ UNCHANGED <<ingressVars, paymentConfirmed, cashierVars, assetVars,
                 floorVars, allowPartialFills, now>>

Tick ==
  /\ now < MaxTime
  /\ now' = now + 1
  /\ UNCHANGED <<ingressVars, matchVars, paymentConfirmed, cashierVars,
                 assetVars, floorVars, listingVars>>

\* ------------------------------------------------------------------------
\* Payment confirmation (Validator, match-proof path)
\* ------------------------------------------------------------------------
RequiresPayment(intent) == intent \in {"BUY_TREASURY", "BUY_MARKET"}

PaymentConfirmedMsg(e, f) ==
  [topic |-> "payment.confirmed", eventId |-> e, matchId |-> f.matchId,
   intent |-> orderClassified[e].intent, buyerId |-> f.buyerId,
   sellerId |-> f.sellerId, from |-> f.sellerId, to |-> f.buyerId,
   amount |-> f.fillAmount,
   usdtAmount |-> f.fillAmount * UsdtPrice]

KeyOf(msg) == <<msg.eventId, msg.matchId>>

\* The payment of fill m of event e is confirmed: 'payment.confirmed' is
\* emitted, and a reservation that has not expired becomes CONFIRMED.
ConfirmPayment(e, m) ==
  /\ e \in orderValidated
  /\ m \in 1..Len(fills[e])
  /\ RequiresPayment(orderClassified[e].intent)
  /\ \A msg \in paymentConfirmed : KeyOf(msg) # <<e, m>>
  /\ paymentConfirmed' =
       paymentConfirmed \cup {PaymentConfirmedMsg(e, fills[e][m])}
  /\ fills' =
       [fills EXCEPT ![e][m].status =
          IF @ = "RESERVED" /\ ~(now > fills[e][m].expiresAt)
          THEN "CONFIRMED" ELSE @]
  /\ UNCHANGED <<matchingThrown, ingressVars, cashierVars, assetVars,
                 floorVars, listingVars, now>>

\* ------------------------------------------------------------------------
\* Cashier
\* ------------------------------------------------------------------------
Currencies == {"USDT", "SPECIES"}

Line(onliId, kind, currency, amount, side) ==
  [account |-> <<onliId, kind>>, currency |-> currency, amount |-> amount,
   side |-> side]

\* createJournalLines crediting the treasury with the USDT amount.
createJournalLinesMutant(event) ==
  IF event.intent = "BUY_TREASURY"
  THEN << Line(event.buyerId, "SPECIES_balance", "SPECIES", event.amount, "Dr"),
          Line("treasury", "SPECIES_inventory", "SPECIES", event.usdtAmount,
               "Cr"),
          Line("assurance", "USDT_cash", "USDT", event.usdtAmount, "Dr"),
          Line(event.buyerId, "USDT_cash", "USDT", event.usdtAmount, "Cr") >>
  ELSE <<>>

\* The lines createJournalEntries pushes: the switch has a case for
\* BUY_TREASURY only.
createJournalLines(event) ==
  IF event.intent = "BUY_TREASURY"
  THEN << Line(event.buyerId, "SPECIES_balance", "SPECIES", event.amount, "Dr"),
          Line("treasury", "SPECIES_inventory", "SPECIES", event.amount, "Cr"),
          Line("assurance", "USDT_cash", "USDT", event.usdtAmount, "Dr"),
          Line(event.buyerId, "USDT_cash", "USDT", event.usdtAmount, "Cr") >>
  ELSE <<>>

createJournalEntries(event) ==
  [eventId |-> event.eventId, matchId |-> event.matchId,
   lines |-> createJournalLines(event), intent |-> event.intent]

RECURSIVE SumSide(_, _, _)
SumSide(lines, currency, side) ==
  IF lines = <<>> THEN 0
  ELSE (IF Head(lines).currency = currency /\ Head(lines).side = side
        THEN Head(lines).amount ELSE 0)
       + SumSide(Tail(lines), currency, side)

\* validateBalanced passes: for every currency, sum(Dr) = sum(Cr).
Balanced(journal) ==
  \A c \in Currencies :
    SumSide(journal.lines, c, "Dr") = SumSide(journal.lines, c, "Cr")

isAlreadyPosted(key) == postingRef[key]

\* The external ledger accepts a posting under an idempotency token; a
\* repeated token is a no-op.
FireflyPost(ledger, key, journal) ==
  IF ledger[key] # <<>> THEN ledger
  ELSE [ledger EXCEPT ![key] = <<journal>>]

CashierOutcomes == {"ok", "fireflyUnavailable", "failAfterPost"}

\* processPaymentConfirmed without the early return on isAlreadyPosted.
CashierProcessPaymentConfirmedMutant(event, outcome) ==
  LET key == KeyOf(event)
      journal == createJournalEntries(event)
  IN
  /\ event \in paymentConfirmed
  /\ fireflyCalls[key] < MaxCalls
  /\ Balanced(journal)
  /\ outcome # "fireflyUnavailable"
  /\ fireflyLedger' = FireflyPost(fireflyLedger, key, journal)
  /\ fireflyCalls' = [fireflyCalls EXCEPT ![key] = @ + 1]
  /\ IF outcome = "ok"
     THEN /\ postingRef' = [postingRef EXCEPT ![key] = TRUE]
          /\ ledgerPosted' = [ledgerPosted EXCEPT ![key] = @ + 1]
     ELSE UNCHANGED <<postingRef, ledgerPosted>>
  /\ UNCHANGED <<ingressVars, matchVars, paymentConfirmed, assetVars,
                 floorVars, listingVars, now, cashierThrown>>

\* validateBalanced that accepts every journal.
BalancedUnchecked(journal) == TRUE

\* validateBalanced passes: for every currency, sum(Dr) = sum(Cr).
ValidateBalanced(journal) == Balanced(journal)

\* processPaymentConfirmed from the journal createJournalEntries returned:
\* validateBalanced throws on an unbalanced journal, before anything is
\* submitted; otherwise the journal is posted under the key, the posting
\* reference stored and 'ledger.posted' emitted.
CashierPostJournal(event, journal, outcome) ==
  LET key == KeyOf(event) IN
  /\ event \in paymentConfirmed
  /\ ~isAlreadyPosted(key)
  /\ fireflyCalls[key] < MaxCalls
  /\ IF ~ValidateBalanced(journal)
     THEN /\ cashierThrown' = [cashierThrown EXCEPT ![key] = "unbalanced"]
          /\ UNCHANGED <<fireflyLedger, fireflyCalls, postingRef,
                         ledgerPosted>>
     ELSE /\ outcome # "fireflyUnavailable"
          /\ fireflyLedger' = FireflyPost(fireflyLedger, key, journal)
          /\ fireflyCalls' = [fireflyCalls EXCEPT ![key] = @ + 1]
          /\ IF outcome = "ok"
             THEN /\ postingRef' = [postingRef EXCEPT ![key] = TRUE]
                  /\ ledgerPosted' = [ledgerPosted EXCEPT ![key] = @ + 1]
             ELSE UNCHANGED <<postingRef, ledgerPosted>>
          /\ UNCHANGED cashierThrown
  /\ UNCHANGED <<ingressVars, matchVars, paymentConfirmed, assetVars,
                 floorVars, listingVars, now>>

\* processPaymentConfirmed for (a delivery of) a payment.confirmed message.
\* The handler returns early when the key is already posted, and throws
\* when the journal is unbalanced or the ledger is unavailable; it may also
\* fail after the post and before the posting reference is stored.
CashierProcessPaymentConfirmed(event, outcome) ==
  CashierPostJournal(event, createJournalEntries(event), outcome)

\* The journals the cases of createJournalEntries for the other intents can
\* return for a market purchase: SPECIES from the seller to the buyer and
\* USDT from the buyer to the seller, with the credit sides as the case
\* computes them, right or off by one.
ElidedJournals(event) ==
  {[eventId |-> event.eventId, matchId |-> event.matchId,
    lines |-> << Line(event.buyerId, "SPECIES_balance", "SPECIES",
                      event.amount, "Dr"),
                 Line(event.sellerId, "SPECIES_balance", "SPECIES", c, "Cr"),
                 Line(event.sellerId, "USDT_cash", "USDT", event.usdtAmount,
                      "Dr"),
                 Line(event.buyerId, "USDT_cash", "USDT", cu, "Cr") >>,
    intent |-> event.intent] :
     c \in {event.amount, event.amount + 1},
     cu \in {event.usdtAmount, event.usdtAmount + 1}}

\* What createJournalEntries can return for the event.
JournalsOf(event) ==
  IF event.intent = "BUY_TREASURY" THEN {createJournalEntries(event)}
  ELSE ElidedJournals(event)

\* ------------------------------------------------------------------------
\* Asset Manager
\* ------------------------------------------------------------------------
\* What one custodian call does: it succeeds, times out after the custodian
\* executed it, times out before the custodian saw it, or is refused for
\* good (vault not found, policy denied, insufficient balance, ...).
AttemptOutcomes == {"ok", "timeoutExecuted", "timeoutLost", "permanent"}

\* The outcomes of the attempts of one execution under the retry policy: an
\* attempt follows timeouts only, and there are at most maxAttempts.
AttemptPlans ==
  {p \in UNION {[1..n -> AttemptOutcomes] : n \in 1..maxAttempts} :
     /\ \A i \in 1..(Len(p) - 1) : p[i] \in {"timeoutExecuted", "timeoutLost"}
     /\ Len(p) < maxAttempts => p[Len(p)] \in {"ok", "permanent"}}

\* What the custodian would do with each of a run of calls, one more than
\* the retry policy allows.
CustodianBehaviours == [1..(maxAttempts + 1) -> AttemptOutcomes]

\* The index of the first call of the behaviour from n on that succeeds or
\* is refused for good, or `last` when there is none before it.
RECURSIVE FirstEnd(_, _, _)
FirstEnd(behaviour, n, last) ==
  IF n >= last \/ behaviour[n] \in {"ok", "permanent"} THEN n
  ELSE FirstEnd(behaviour, n + 1, last)

\* A retry policy that retries for as long as the custodian times out.
retryPolicyExecuteNoCeiling(behaviour) ==
  SubSeq(behaviour, 1, FirstEnd(behaviour, 1, Len(behaviour)))

\* retryPolicy.execute against a custodian behaving as given: the calls it
\* makes.  A timeout is retried until maxAttempts calls are made.
retryPolicyExecute(behaviour) ==
  SubSeq(behaviour, 1, FirstEnd(behaviour, 1, maxAttempts))

\* The X-Request-Id of attempt n for fill <<e, m>>: eventId:matchId.
IdempotencyKey(e, m, n) == <<e, m, 0>>

Executes(outcome) == outcome \in {"ok", "timeoutExecuted"}

\* retryPolicy.execute: the index of the attempt that ends the execution,
\* which is the first "ok" or "permanent" one, or the last one allowed.
RECURSIVE LastAttempt(_, _)
LastAttempt(plan, n) ==
  IF n = Len(plan) \/ plan[n] \in {"ok", "permanent"} THEN n
  ELSE LastAttempt(plan, n + 1)

\* The request keys of the attempts of the plan that the custodian executed.
ExecutedKeys(e, m, plan) ==
  {IdempotencyKey(e, m, n) :
     n \in {i \in 1..LastAttempt(plan, 1) : Executes(plan[i])}}

\* The custodian moves the asset once per request key it has not seen.
NewKeys(e, m, plan) == ExecutedKeys(e, m, plan) \ custodianKeys

ExecutionResult(plan) ==
  LET last == plan[LastAttempt(plan, 1)] IN
    IF last = "ok" THEN "ok"
    ELSE IF last = "permanent" THEN "policy.denied"
    ELSE "provider.unavailable"

Operation(intent) == IF intent = "BUY_TREASURY" THEN "Issue" ELSE "ChangeOwner"

OwnershipChangedMsg(event, receiptId) ==
  [topic |-> "ownership.changed", eventId |-> event.eventId,
   matchId |-> event.matchId, assetReceiptId |-> receiptId,
   operation |-> Operation(event.intent), from |-> event.from,
   to |-> event.to, amount |-> event.amount, intent |-> event.intent]

\* The body of processPaymentConfirmed: the intent selects the custodian
\* operation, executed under the retry policy with the idempotency key; on
\* success 'ownership.changed' is published, on an error 'transfer.failed'.
AssetManagerExecute(event, plan) ==
  LET e == event.eventId
      m == event.matchId
      key == <<e, m>>
  IN
  IF event.intent \in {"BUY_TREASURY", "BUY_MARKET", "TRANSFER"}
  THEN /\ custodianKeys' = custodianKeys \cup ExecutedKeys(e, m, plan)
       /\ assetMoves' =
            [assetMoves EXCEPT ![key] = @ + Cardinality(NewKeys(e, m, plan))]
       /\ IF ExecutionResult(plan) = "ok"
          THEN /\ ownershipChanged' = ownershipChanged \cup
                    {OwnershipChangedMsg(event,
                       IdempotencyKey(e, m, LastAttempt(plan, 1)))}
               /\ ownershipPublished' =
                    [ownershipPublished EXCEPT ![key] = @ + 1]
               /\ UNCHANGED transferFailed
          ELSE /\ transferFailed' =
                    [transferFailed EXCEPT ![key] = ExecutionResult(plan)]
               /\ UNCHANGED <<ownershipChanged, ownershipPublished>>
  ELSE /\ transferFailed' = [transferFailed EXCEPT ![key] = "input.invalid"]
       /\ UNCHANGED <<custodianKeys, assetMoves, ownershipChanged,
                      ownershipPublished>>

AssetManagerProcessPaymentConfirmed(event, plan) ==
  /\ event \in paymentConfirmed
  /\ ownershipPublished[KeyOf(event)] < MaxCalls
  /\ AssetManagerExecute(event, plan)
  /\ UNCHANGED <<ingressVars, matchVars, paymentConfirmed, cashierVars,
                 floorVars, listingVars, now>>

\* The Asset Manager also consumes 'order.classified' for TRANSFER, which
\* carries no matchId.
AssetManagerProcessOrderClassified(e, plan) ==
  /\ orderClassified[e] # NoMsg
  /\ orderClassified[e].intent = "TRANSFER"
  /\ ownershipPublished[<<e, 0>>] < MaxCalls
  /\ AssetManagerExecute(
       [eventId |-> e, matchId |-> 0, intent |-> "TRANSFER",
        from |-> orderClassified[e].from, to |-> orderClassified[e].to,
        amount |-> orderClassified[e].amount], plan)
  /\ UNCHANGED <<ingressVars, matchVars, paymentConfirmed, cashierVars,
                 floorVars, listingVars, now>>

\* ------------------------------------------------------------------------
\* Floor Manager
\* ------------------------------------------------------------------------
\* An answer of the ownership oracle (RevealGenomes): the owners named by
\* the returned helices and whether they add up to the transferred amount,
\* or no answer at all.
OracleAnswers ==
  [owners : {{}, {"alice"}, {"bob"}}, amountOk : BOOLEAN,
   unavailable : {FALSE}]
  \cup {[owners |-> {}, amountOk |-> FALSE, unavailable |-> TRUE]}

NoAnswer == [none |-> "none"]

verifyWithOracle(owner, answer) == owner \in answer.owners

FloorFailurePoints == {"none", "finalizeLedgers", "storeReceipt", "cleanup"}

\* The postings of the ledger and the transfer records that exist for e.
LedgerPostingsOf(e, ledger) == {k \in Keys : k[1] = e /\ ledger[k] # <<>>}

composeEventReceipt(e, ledger) ==
  [eventId |-> e, status |-> "COMPLETED",
   ledgerPostings |-> LedgerPostingsOf(e, ledger), error |-> "none"]

FailedReceipt(e, reason) ==
  [eventId |-> e, status |-> "FAILED", ledgerPostings |-> {},
   error |-> reason]

\* Settlement entries of finalizeLedgers: a TRANSFER gets its SPECIES-only
\* journal here, the other intents have no settlement-specific lines.
TransferJournal(event) ==
  [eventId |-> event.eventId, matchId |-> event.matchId,
   lines |-> << Line(event.to, "SPECIES_balance", "SPECIES", event.amount,
                     "Dr"),
                Line(event.from, "SPECIES_balance", "SPECIES", event.amount,
                     "Cr") >>,
   intent |-> event.intent]

finalizeLedgers(event, ledger) ==
  IF event.intent = "TRANSFER"
  THEN FireflyPost(ledger, KeyOf(event), TransferJournal(event))
  ELSE ledger

\* The stage of the try block at which processOwnershipChanged throws, or
\* "none" when it runs to the end.
FloorThrowsAt(event, answer, failAt) ==
  IF answer.unavailable \/ ~verifyWithOracle(event.to, answer)
  THEN "verifyWithOracle"
  ELSE failAt

FloorReason(stage) ==
  IF stage = "verifyWithOracle" THEN "oracle.verification_failed"
  ELSE IF stage = "finalizeLedgers" THEN "ledger.imbalance"
  ELSE "receipt.generation_failed"

\* processOwnershipChanged for (a delivery of) an ownership.changed message:
\* oracle verification, ledger finalisation, composition and storage of the
\* receipt, cleanup and 'order.completed'; an error thrown anywhere in the
\* try block is handed to handleReconciliationFailure, which stores a FAILED
\* receipt and emits 'reconcile.failed'.
FloorManagerProcessOwnershipChanged(event, answer, failAt) ==
  LET e == event.eventId
      stage == FloorThrowsAt(event, answer, failAt)
      ledger == IF stage = "verifyWithOracle" THEN fireflyLedger
                ELSE IF stage = "finalizeLedgers" THEN fireflyLedger
                ELSE finalizeLedgers(event, fireflyLedger)
      stored == IF stage \in {"none", "cleanup"}
                THEN <<composeEventReceipt(e, ledger)>> ELSE <<>>
      failed == IF stage # "none"
                THEN <<FailedReceipt(e, FloorReason(stage))>> ELSE <<>>
  IN
  /\ event \in ownershipChanged
  /\ Len(receipts[e]) + Len(stored) + Len(failed) <= MaxReceipts
  /\ fireflyLedger' = ledger
  /\ receipts' = [receipts EXCEPT ![e] = @ \o stored \o failed]
  /\ oracleResponse' = [oracleResponse EXCEPT ![e] = answer]
  /\ UNCHANGED <<ingressVars, matchVars, paymentConfirmed, fireflyCalls,
                 postingRef, ledgerPosted, cashierThrown, assetVars,
                 listingVars, now>>

\* Reconciler.Reconcile of the build plan for (a delivery of) a transfer
\* record: an error of the oracle is returned to the caller and nothing is
\* stored; otherwise a COMPLETED receipt is built and handed to
\* reporter.StoreReceipt, whose outcome is not looked at.
ReconcilerReconcile(event, answer, stored) ==
  LET e == event.eventId IN
  /\ event \in ownershipChanged
  /\ Len(receipts[e]) < MaxReceipts
  /\ oracleResponse' = [oracleResponse EXCEPT ![e] = answer]
  /\ receipts' =
       IF answer.unavailable \/ ~stored THEN receipts
       ELSE [receipts EXCEPT ![e] =
               Append(@, [eventId |-> e, status |-> "COMPLETED",
                          ledgerPostings |-> {}, error |-> "none"])]
  /\ UNCHANGED <<ingressVars, matchVars, paymentConfirmed, cashierVars,
                 assetVars, listingVars, now>>

\* ------------------------------------------------------------------------
\* Specification of the pipeline
\* ------------------------------------------------------------------------
Init ==
  /\ request = [e \in Events |-> NoReq]
  /\ orderValidated = {}
  /\ paymentFailed = [e \in Events |-> "none"]
  /\ verificationCache = [e \in Events |-> NoResult]
  /\ orderClassified = [e \in Events |-> NoMsg]
  /\ userRegistry = [a \in Accounts |-> "trader"]
  /\ backendPayment = [e \in Events |-> NoPayment]
  /\ InitDualPath
  /\ fills = [e \in Events |-> <<>>]
  /\ matchingThrown = [e \in Events |-> FALSE]
  /\ InitGateway
  /\ InitClient
  /\ paymentConfirmed = {}
  /\ fireflyLedger = [k \in Keys |-> <<>>]
  /\ fireflyCalls = [k \in Keys |-> 0]
  /\ postingRef = [k \in Keys |-> FALSE]
  /\ ledgerPosted = [k \in Keys |-> 0]
  /\ cashierThrown = [k \in Keys |-> "none"]
  /\ custodianKeys = {}
  /\ assetMoves = [k \in Keys |-> 0]
  /\ ownershipChanged = {}
  /\ ownershipPublished = [k \in Keys |-> 0]
  /\ transferFailed = [k \in Keys |-> "none"]
  /\ receipts = [e \in Events |-> <<>>]
  /\ oracleResponse = [e \in Events |-> NoAnswer]
  /\ listings = [l \in ListingIds |-> NoListing]
  /\ allowPartialFills = TRUE
  /\ now = 0

\* Deliveries: the bus hands a handler any message it holds, any number of
\* times, and the environment chooses what the external services answer.
Admission == \E e \in Events, r \in Requests : Admit(e, r)

Validation ==
  \E e \in Events, b \in BOOLEAN :
    /\ request[e] # NoReq
    /\ \E checks \in ChecksFor(request[e]) :
         /\ b => VerificationValid(checks)
         /\ verificationCache[e] # NoResult =>
              (~b /\ checks = verificationCache[e])
         /\ ValidatorValidate(e, checks, b)

Classification == \E e \in Events : ClassifierProcessEvent(e)

Matching == \E e \in Events : MatchingProcessClassifiedOrder(e)

Confirmation == \E e \in Events, m \in 1..MaxMatch : ConfirmPayment(e, m)

LedgerPosting ==
  \E event \in paymentConfirmed, o \in CashierOutcomes :
    CashierProcessPaymentConfirmed(event, o)

PaidTransfer ==
  \E event \in paymentConfirmed, plan \in AttemptPlans :
    AssetManagerProcessPaymentConfirmed(event, plan)

PeerTransfer ==
  \E e \in Events, plan \in AttemptPlans :
    AssetManagerProcessOrderClassified(e, plan)

Reconciliation ==
  \E event \in ownershipChanged, answer \in OracleAnswers,
     failAt \in FloorFailurePoints :
    /\ FloorThrowsAt(event, answer, "none") # "none" => failAt = "none"
    /\ FloorManagerProcessOwnershipChanged(event, answer, failAt)

Next ==
  \/ Admission
  \/ Validation
  \/ Classification
  \/ Matching
  \/ Confirmation
  \/ LedgerPosting
  \/ PaidTransfer
  \/ PeerTransfer
  \/ Reconciliation

Spec == Init /\ [][Next]_vars

\* Every message on the bus is eventually handled: each handler that can
\* take a step eventually takes one.  Admission is up to the environment.
Fairness ==
  /\ WF_vars(Validation)
  /\ WF_vars(Classification)
  /\ WF_vars(Matching)
  /\ WF_vars(Confirmation)
  /\ WF_vars(LedgerPosting)
  /\ WF_vars(PaidTransfer)
  /\ WF_vars(PeerTransfer)
  /\ WF_vars(Reconciliation)

FairSpec == Spec /\ Fairness

\* ------------------------------------------------------------------------
\* Specification of the pipeline with both reconcilers consuming the
\* transfer records: the Floor Manager and the Reconciler of the build plan.
\* ------------------------------------------------------------------------
Reconcile ==
  \E event \in ownershipChanged, answer \in OracleAnswers,
     stored \in BOOLEAN :
    ReconcilerReconcile(event, answer, stored)

NextReconciler ==
  \/ Admission
  \/ Validation
  \/ Classification
  \/ Matching
  \/ Confirmation
  \/ LedgerPosting
  \/ PaidTransfer
  \/ PeerTransfer
  \/ Reconciliation
  \/ Reconcile

SpecReconciler == Init /\ [][NextReconciler]_vars

\* ------------------------------------------------------------------------
\* Specification of the Asset Manager under retries: the pipeline up to the
\* custodian, which behaves in any way over the calls the retry policy makes.
\* ------------------------------------------------------------------------
RetriedTransfer ==
  \E event \in paymentConfirmed, behaviour \in CustodianBehaviours :
    AssetManagerProcessPaymentConfirmed(event, retryPolicyExecute(behaviour))

NextRetry ==
  \/ Admission
  \/ Validation
  \/ Classification
  \/ Matching
  \/ Confirmation
  \/ RetriedTransfer

SpecRetry == Init /\ [][NextRetry]_vars

\* ------------------------------------------------------------------------
\* Specification of the stages up to settlement: admission to the two
\* parallel consumers of 'payment.confirmed'.
\* ------------------------------------------------------------------------
NextSettlement ==
  \/ Admission
  \/ Validation
  \/ Classification
  \/ Matching
  \/ Confirmation
  \/ LedgerPosting
  \/ PaidTransfer
  \/ PeerTransfer

SpecSettlement == Init /\ [][NextSettlement]_vars

\* ------------------------------------------------------------------------
\* Specification of the Matching Service: its inputs are order.classified
\* messages of validated requests, against a listing that is already open.
\* ------------------------------------------------------------------------
ClassifiedOrders(e) ==
  [topic : {"order.classified"}, eventId : {e},
   intent : {"BUY_MARKET", "SELL_MARKET"}, amount : 1..MaxOrder,
   listingId : ListingIds, from : {IF e = "e1" THEN "alice" ELSE "bob"},
   to : {"carol"}]

OpenListings ==
  [status : {"ACTIVE"}, sellerId : {"carol"}, amount : 1..MaxListing,
   availableAmount : 1..MaxListing, expiresAt : {ListingDuration}]

InitMatching ==
  /\ orderValidated = Events
  /\ paymentFailed = [e \in Events |-> "none"]
  /\ verificationCache = [e \in Events |-> [c \in NOWPaymentsChecks |-> TRUE]]
  /\ orderClassified \in
       {oc \in [Events -> UNION {ClassifiedOrders(e) : e \in Events}] :
          \A e \in Events :
            /\ oc[e].eventId = e
            /\ oc[e].intent = "BUY_MARKET" => oc[e].listingId = "L1"
            /\ oc[e].intent = "SELL_MARKET" => oc[e].listingId = "L2"}
  /\ request =
       [e \in Events |->
          [kind |-> "req", from |-> orderClassified[e].from,
           to |-> orderClassified[e].to, amount |-> orderClassified[e].amount,
           proof |-> "npmt"]]
  /\ userRegistry = [a \in Accounts |-> "trader"]
  /\ backendPayment = [e \in Events |-> NoPayment]
  /\ InitDualPath
  /\ fills = [e \in Events |-> <<>>]
  /\ matchingThrown = [e \in Events |-> FALSE]
  /\ InitGateway
  /\ InitClient
  /\ paymentConfirmed = {}
  /\ fireflyLedger = [k \in Keys |-> <<>>]
  /\ fireflyCalls = [k \in Keys |-> 0]
  /\ postingRef = [k \in Keys |-> FALSE]
  /\ ledgerPosted = [k \in Keys |-> 0]
  /\ cashierThrown = [k \in Keys |-> "none"]
  /\ custodianKeys = {}
  /\ assetMoves = [k \in Keys |-> 0]
  /\ ownershipChanged = {}
  /\ ownershipPublished = [k \in Keys |-> 0]
  /\ transferFailed = [k \in Keys |-> "none"]
  /\ receipts = [e \in Events |-> <<>>]
  /\ oracleResponse = [e \in Events |-> NoAnswer]
  /\ listings \in
       {ls \in [ListingIds -> OpenListings \cup {NoListing}] :
          /\ ls["L1"] # NoListing
          /\ ls["L1"].availableAmount = ls["L1"].amount
          /\ ls["L2"] = NoListing}
  /\ allowPartialFills \in BOOLEAN
  /\ now = 0

Release ==
  \E e \in Events, m \in 1..MaxMatch : ReleaseExpiredReservation(e, m)

NextMatching ==
  \/ \E e \in Events : MatchingProcessClassifiedOrder(e)
  \/ \E e \in Events, m \in 1..MaxMatch : ConfirmPayment(e, m)
  \/ \E e \in Events, m \in 1..MaxMatch : ReleaseExpiredReservation(e, m)
  \/ Tick

SpecMatching == InitMatching /\ [][NextMatching]_vars

\* ------------------------------------------------------------------------
\* Specification of the Cashier on the market path: the journal of a market
\* purchase comes from a case of createJournalEntries that is not given.
\* ------------------------------------------------------------------------
CashierPosting ==
  \E event \in paymentConfirmed, o \in CashierOutcomes :
    \E journal \in JournalsOf(event) : CashierPostJournal(event, journal, o)

NextCashier ==
  \/ Matching
  \/ Confirmation
  \/ CashierPosting

SpecCashier == InitMatching /\ [][NextCashier]_vars

\* ------------------------------------------------------------------------
\* Specification of the market path end to end: the Matching Service with
\* the stages downstream of it, every handler eventually handling the
\* messages it is subscribed to.  The clock stands still: no reservation
\* and no listing expires.
\* ------------------------------------------------------------------------
\* One buyer against the open listing, and one seller creating a listing.
InitMarket ==
  /\ InitMatching
  /\ orderClassified["e1"].intent = "BUY_MARKET"
  /\ orderClassified["e2"].intent = "SELL_MARKET"

NextMarket ==
  \/ Matching
  \/ Confirmation
  \/ LedgerPosting
  \/ PaidTransfer
  \/ Reconciliation

FairnessMarket ==
  /\ WF_vars(Matching)
  /\ WF_vars(Confirmation)
  /\ WF_vars(LedgerPosting)
  /\ WF_vars(PaidTransfer)
  /\ WF_vars(Reconciliation)

FairSpecMarket == InitMarket /\ [][NextMarket]_vars /\ FairnessMarket

\* ------------------------------------------------------------------------
\* Specification of the reservation lease with settlement: the market path
\* up to the two consumers of 'payment.confirmed', under a running clock.
\* ------------------------------------------------------------------------
NextLease ==
  \/ Matching
  \/ Confirmation
  \/ Release
  \/ Tick
  \/ LedgerPosting
  \/ PaidTransfer

SpecLease == InitMarket /\ [][NextLease]_vars

\* ------------------------------------------------------------------------
\* Specification of the Classifier: its inputs are validated requests with
\* every field of an EventRequest that decide() reads, and the registry is
\* rewritten by the scheduled sync while messages are re-delivered.
\* ------------------------------------------------------------------------
ClassifierRequests ==
  [kind : {"req"}, from : {"alice"}, to : {"treasury", "bob"},
   amount : 1..MaxAmount, proof : {"npmt"}, listingId : {"", "L1"},
   putProceeds : BOOLEAN]

InitClassifier ==
  /\ request \in [Events -> ClassifierRequests]
  /\ orderValidated = Events
  /\ paymentFailed = [e \in Events |-> "none"]
  /\ verificationCache = [e \in Events |-> [c \in NOWPaymentsChecks |-> TRUE]]
  /\ orderClassified = [e \in Events |-> NoMsg]
  /\ userRegistry = [a \in Accounts |-> "trader"]
  /\ backendPayment = [e \in Events |-> NoPayment]
  /\ InitDualPath
  /\ fills = [e \in Events |-> <<>>]
  /\ matchingThrown = [e \in Events |-> FALSE]
  /\ InitGateway
  /\ InitClient
  /\ paymentConfirmed = {}
  /\ fireflyLedger = [k \in Keys |-> <<>>]
  /\ fireflyCalls = [k \in Keys |-> 0]
  /\ postingRef = [k \in Keys |-> FALSE]
  /\ ledgerPosted = [k \in Keys |-> 0]
  /\ cashierThrown = [k \in Keys |-> "none"]
  /\ custodianKeys = {}
  /\ assetMoves = [k \in Keys |-> 0]
  /\ ownershipChanged = {}
  /\ ownershipPublished = [k \in Keys |-> 0]
  /\ transferFailed = [k \in Keys |-> "none"]
  /\ receipts = [e \in Events |-> <<>>]
  /\ oracleResponse = [e \in Events |-> NoAnswer]
  /\ listings = [l \in ListingIds |-> NoListing]
  /\ allowPartialFills = TRUE
  /\ now = 0

RegistrySync == \E registry \in Registries : syncUserRegistry(registry)

NextClassifier ==
  \/ Classification
  \/ RegistrySync

SpecClassifier == InitClassifier /\ [][NextClassifier]_vars

\* ------------------------------------------------------------------------
\* Specification of payment verification: an admitted request whose proof
\* names a payment the backend holds, verified at every delivery.
\* ------------------------------------------------------------------------
InitVerification ==
  /\ request \in
       {r \in [Events -> Requests \cup {NoReq}] :
          \A e \in Events :
            IF e \in PipelineEvents
            THEN r[e] # NoReq /\ r[e].to = "treasury"
                 /\ r[e].proof \in {"npmt", "txhash"}
            ELSE r[e] = NoReq}
  /\ backendPayment \in
       {bp \in [Events -> NOWPayments \cup TronTransactions \cup {NoPayment}] :
          \A e \in Events :
            IF request[e] = NoReq THEN bp[e] = NoPayment
            ELSE bp[e] \in PaymentsFor(request[e])}
  /\ InitDualPath
  /\ orderValidated = {}
  /\ paymentFailed = [e \in Events |-> "none"]
  /\ verificationCache = [e \in Events |-> NoResult]
  /\ orderClassified = [e \in Events |-> NoMsg]
  /\ userRegistry = [a \in Accounts |-> "trader"]
  /\ fills = [e \in Events |-> <<>>]
  /\ matchingThrown = [e \in Events |-> FALSE]
  /\ InitGateway
  /\ InitClient
  /\ paymentConfirmed = {}
  /\ fireflyLedger = [k \in Keys |-> <<>>]
  /\ fireflyCalls = [k \in Keys |-> 0]
  /\ postingRef = [k \in Keys |-> FALSE]
  /\ ledgerPosted = [k \in Keys |-> 0]
  /\ cashierThrown = [k \in Keys |-> "none"]
  /\ custodianKeys = {}
  /\ assetMoves = [k \in Keys |-> 0]
  /\ ownershipChanged = {}
  /\ ownershipPublished = [k \in Keys |-> 0]
  /\ transferFailed = [k \in Keys |-> "none"]
  /\ receipts = [e \in Events |-> <<>>]
  /\ oracleResponse = [e \in Events |-> NoAnswer]
  /\ listings = [l \in ListingIds |-> NoListing]
  /\ allowPartialFills = TRUE
  /\ now = 0

Verification == \E e \in Events : ValidatorVerify(e)

NextVerification ==
  \/ Verification
  \/ Classification

SpecVerification == InitVerification /\ [][NextVerification]_vars

\* ------------------------------------------------------------------------
\* Specification of the dual-path verifier: concurrent calls of Verify
\* against two backends, each behind its circuit breaker.
\* ------------------------------------------------------------------------
PrimaryReturn ==
  \E stale \in BOOLEAN, reply \in BackendReplies :
    PrimaryReturns(stale, reply)

SecondaryReturn ==
  \E stale \in BOOLEAN, reply \in BackendReplies :
    SecondaryReturns(stale, reply)

NextVerifier ==
  \/ VerifyStart
  \/ PrimaryReturn
  \/ SecondaryReturn
  \/ CacheExpires
  \/ ClockTick

SpecVerifier == Init /\ [][NextVerifier]_vars

\* ------------------------------------------------------------------------
\* Properties of the pipeline
\* ------------------------------------------------------------------------

\* C1: every admitted request eventually has a terminal receipt (COMPLETED
\* or FAILED) stored for its eventId, whichever stage fails and however
\* often messages are re-delivered.
EveryRequestGetsReceipt ==
  \A e \in Events : (request[e] # NoReq) ~> (receipts[e] # <<>>)

\* C2: at most one terminal receipt is ever composed and stored for an
\* eventId, so a COMPLETED receipt is never followed by a FAILED one, nor
\* by a second COMPLETED one, when 'ownership.changed' is re-delivered.
AtMostOneReceipt == \A e \in Events : Len(receipts[e]) <= 1

OneMoveOneTransferRecord ==
  \A k \in Keys : assetMoves[k] <= 1 /\ ownershipPublished[k] <= 1

\* C5: the external ledger holds at most one journal per eventId:matchId, a
\* journal that is posted is never changed by a later delivery (also when
\* the Cashier failed between the post and the storing of the posting
\* reference), and once the reference is stored a delivery does nothing.
LedgerPosterIdempotent ==
  [][\A k \in Keys :
       /\ Len(fireflyLedger'[k]) <= 1
       /\ fireflyLedger[k] # <<>> => fireflyLedger'[k] = fireflyLedger[k]
       /\ postingRef[k] =>
            /\ postingRef'[k]
            /\ fireflyCalls'[k] = fireflyCalls[k]
            /\ ledgerPosted'[k] = ledgerPosted[k]]_vars

PostedAgainAfterFailure ==
  \E k \in Keys :
    fireflyCalls[k] = 2 /\ Len(fireflyLedger[k]) = 1 /\ postingRef[k]

\* C6: every journal in the ledger, and every journal the Cashier builds
\* for a confirmed payment whatever its intent, has for each currency the
\* sum of its Dr amounts equal to the sum of its Cr amounts.
PostedJournalsBalanced ==
  /\ \A k \in Keys :
       \A i \in 1..Len(fireflyLedger[k]) : Balanced(fireflyLedger[k][i])
  /\ \A msg \in paymentConfirmed, i \in Intents :
       Balanced(createJournalEntries([msg EXCEPT !.intent = i]))

TwoCurrencyJournalPosted ==
  \E k \in Keys :
    /\ fireflyLedger[k] # <<>>
    /\ Len(fireflyLedger[k][1].lines) = 4
    /\ SumSide(fireflyLedger[k][1].lines, "USDT", "Dr")
         # SumSide(fireflyLedger[k][1].lines, "SPECIES", "Dr")

\* C10: a COMPLETED receipt is composed for an eventId only when a
\* TransferRecord and a journal posting exist for that eventId at the time
\* of composition.
CompletedOnlyWithPostingAndTransfer ==
  \A e \in Events :
    \A i \in 1..Len(receipts[e]) :
      receipts[e][i].status = "COMPLETED" =>
        /\ receipts[e][i].ledgerPostings # {}
        /\ \E r \in ownershipChanged : r.eventId = e

\* ------------------------------------------------------------------------
\* Properties of the Matching Service
\* ------------------------------------------------------------------------
\* The reservations that hold an amount of listing l.
LiveReservations(l) ==
  {k \in Keys :
     /\ k[2] \in 1..Len(fills[k[1]])
     /\ fills[k[1]][k[2]].listingId = l
     /\ fills[k[1]][k[2]].status \in {"RESERVED", "CONFIRMED"}}

RECURSIVE SumAmounts(_)
SumAmounts(ids) ==
  IF ids = {} THEN 0
  ELSE LET k == CHOOSE x \in ids : TRUE IN
         fills[k[1]][k[2]].fillAmount + SumAmounts(ids \ {k})

HeldAmount(l) == SumAmounts(LiveReservations(l))

\* C7: the live reservations against a listing never add up to more than
\* the amount the listing had available, however the purchases of several
\* buyers interleave.
NeverOverReserved ==
  \A l \in ListingIds :
    listings[l] # NoListing => HeldAmount(l) <= listings[l].amount

TwoBuyersShareListing ==
  \E l \in ListingIds :
    /\ listings[l] # NoListing
    /\ Cardinality({k[1] : k \in LiveReservations(l)}) = 2
    /\ HeldAmount(l) = listings[l].amount

\* C8: every listing has 0 <= availableAmount <= amount, across
\* reservations, confirmations, expiries and releases.
AvailableWithinTotal ==
  \A l \in ListingIds :
    listings[l] # NoListing =>
      /\ 0 <= listings[l].availableAmount
      /\ listings[l].availableAmount <= listings[l].amount

SoldOutAfterExpiryAndConfirmation ==
  \E l \in ListingIds :
    /\ listings[l] # NoListing
    /\ listings[l].availableAmount = 0
    /\ \E k \in Keys :
         /\ k[2] \in 1..Len(fills[k[1]])
         /\ fills[k[1]][k[2]].listingId = l
         /\ fills[k[1]][k[2]].status = "EXPIRED"
    /\ \E k \in LiveReservations(l) : fills[k[1]][k[2]].status = "CONFIRMED"

\* C9: the amount of a reservation that expired unconfirmed is returned to
\* its listing exactly once: the available amount of a listing and the
\* amounts its live reservations hold always add up to its total amount.
ReleaseIsNetZero ==
  \A l \in ListingIds :
    listings[l] # NoListing =>
      listings[l].availableAmount + HeldAmount(l) = listings[l].amount

ExpiredReservationReleased ==
  \E k \in Keys :
    /\ k[2] \in 1..Len(fills[k[1]])
    /\ fills[k[1]][k[2]].status = "EXPIRED"
    /\ fills[k[1]][k[2]].listingId # ""
    /\ LiveReservations(fills[k[1]][k[2]].listingId) = {}
    /\ listings[fills[k[1]][k[2]].listingId].availableAmount
         = listings[fills[k[1]][k[2]].listingId].amount

\* ------------------------------------------------------------------------
\* Properties of the Floor Manager
\* ------------------------------------------------------------------------
\* The oracle answer shows the transferred asset of e under its expected
\* owner and in the expected amount.
OracleShowsTransfer(e, answer) ==
  /\ answer # NoAnswer
  /\ ~answer.unavailable
  /\ answer.amountOk
  /\ \E r \in ownershipChanged : r.eventId = e /\ r.to \in answer.owners

\* C11: an oracle mismatch is never downgraded to success: a delivery that
\* stores a COMPLETED receipt for an eventId has been answered by the oracle
\* with the asset under the expected owner and in the expected amount.
OracleMismatchNeverCompleted ==
  [][\A e \in Events :
       (\E i \in (Len(receipts[e]) + 1)..Len(receipts'[e]) :
          receipts'[e][i].status = "COMPLETED")
       => OracleShowsTransfer(e, oracleResponse'[e])]_vars

IntentByDecisionOrder(r) ==
  IF r.listingId # "" THEN "BUY_MARKET"
  ELSE IF IncludesTreasury(r.to) THEN "BUY_TREASURY"
  ELSE IF r.putProceeds THEN "SELL_MARKET"
  ELSE "TRANSFER"

\* C13: the intent emitted for a request follows the decision order, first
\* match winning: a listing reference gives a market purchase, else a
\* treasury destination a treasury issuance, else a proceeds address a
\* market sell, else a peer transfer.
EmittedIntentFollowsDecisionOrder ==
  \A e \in Events :
    orderClassified[e] # NoMsg =>
      orderClassified[e].intent = IntentByDecisionOrder(request[e])

\* ------------------------------------------------------------------------
\* Properties of the failure paths
\* ------------------------------------------------------------------------
\* Nothing downstream of the Validator exists for the eventId: no fill or
\* reservation, no journal posting, no custodian call and no transfer record.
NothingSettled(e) ==
  /\ fills[e] = <<>>
  /\ \A msg \in paymentConfirmed : msg.eventId # e
  /\ \A r \in ownershipChanged : r.eventId # e
  /\ \A k \in Keys :
       k[1] = e =>
         /\ fireflyLedger[k] = <<>>
         /\ fireflyCalls[k] = 0
         /\ assetMoves[k] = 0
         /\ ownershipPublished[k] = 0

HasFailedReceipt(e, reason) ==
  \E i \in 1..Len(receipts[e]) :
    receipts[e][i].status = "FAILED" /\ receipts[e][i].error = reason

\* The pipeline halted before matching on a proof with too few confirmations.
HaltedOnInsufficientConfirmations ==
  \A e \in Events :
    paymentFailed[e] = "insufficient.confirmations" => NothingSettled(e)

\* C14: a proof with fewer confirmations than the minimum is rejected with
\* the reason 'insufficient confirmations', no fill, reservation, journal
\* posting or transfer is ever created for its eventId, and its receipt is
\* FAILED with that reason.
InsufficientConfirmationsEndsInFailedReceipt ==
  /\ []HaltedOnInsufficientConfirmations
  /\ \A e \in Events :
       (paymentFailed[e] = "insufficient.confirmations")
         ~> HasFailedReceipt(e, "insufficient.confirmations")

\* The purchase of e asks for more than its listing has available, and
\* partial fills are disallowed.
ListingInsufficient(e) ==
  /\ orderClassified[e] # NoMsg
  /\ orderClassified[e].intent = "BUY_MARKET"
  /\ fills[e] = <<>>
  /\ ~allowPartialFills
  /\ ListingOpen(listings[orderClassified[e].listingId], now)
  /\ orderClassified[e].amount
       > listings[orderClassified[e].listingId].availableAmount

\* C15: a market purchase for more than the available amount of its
\* listing, with partial fills disallowed, creates no fill, leaves the
\* available amount of the listing unchanged, leads to no journal posting
\* and no transfer, and ends in a FAILED receipt with the reason 'listing
\* insufficient'.
ListingInsufficientEndsInFailedReceipt ==
  /\ [][\A e \in Events :
          ListingInsufficient(e) =>
            /\ fills'[e] = <<>>
            /\ fills' = fills =>
                 listings'[orderClassified[e].listingId]
                   = listings[orderClassified[e].listingId]]_vars
  /\ [](\A e \in Events : ListingInsufficient(e) => NothingSettled(e))
  /\ \A e \in Events :
       ListingInsufficient(e) ~> HasFailedReceipt(e, "listing.insufficient")

\* The payment of reservation k was confirmed only after its expiry: a
\* 'payment.confirmed' message exists and the reservation never became
\* CONFIRMED.
ConfirmedAfterExpiry(k) ==
  /\ k[2] \in 1..Len(fills[k[1]])
  /\ fills[k[1]][k[2]].status # "CONFIRMED"
  /\ \E msg \in paymentConfirmed : KeyOf(msg) = k

\* C16: an expired reservation is void for every stage that observes it: a
\* payment confirmed only after the expiry of its reservation leads to no
\* ledger posting and to no transfer for that reservation.
ExpiredReservationIsVoid ==
  \A k \in Keys :
    ConfirmedAfterExpiry(k) =>
      /\ fireflyLedger[k] = <<>>
      /\ fireflyCalls[k] = 0
      /\ assetMoves[k] = 0
      /\ ownershipPublished[k] = 0

\* ------------------------------------------------------------------------
\* Properties of the Validator
\* ------------------------------------------------------------------------
\* The five validation predicates over what the backend holds: finality,
\* currency, confirmed amount against expected amount, confirmations and
\* freshness.
FivePredicatesHold(req, payment) ==
  IF payment.backend = "nowpayments"
  THEN /\ payment.payment_status = "finished"
       /\ payment.price_currency = "USDT"
       /\ payment.actually_paid = ExpectedAmount(req)
       /\ payment.confirmations >= MinConfirmations
       /\ payment.age <= MaxPaymentAgeMinutes
  ELSE /\ payment.contractRet = "SUCCESS"
       /\ payment.contract = "USDT_CONTRACT"
       /\ payment.value = ExpectedAmount(req)
       /\ payment.confirmations >= MinConfirmations
       /\ payment.age <= MaxPaymentAgeMinutes

\* C17: a VerificationResult is valid only if all five validation
\* predicates hold of the payment: final status, expected currency,
\* confirmed amount within tolerance of the expected amount, confirmations
\* at or above the minimum, and timestamp within the freshness window; on
\* the processor path and on the direct-chain path.
ValidOnlyIfFivePredicates ==
  \A e \in Events :
    ( /\ verificationCache[e] # NoResult
      /\ VerificationValid(verificationCache[e]) )
    => FivePredicatesHold(request[e], backendPayment[e])

\* C18: a call of Verify never ends in a failure (an error or a panic)
\* without having called the secondary backend.
FailureOnlyAfterSecondary ==
  lastVerify.result \in {"error", "panic"} => lastVerify.secondary

\* The breaker of b is open and its timeout has not elapsed.
CoolingDown(b) ==
  breaker[b].state = "open" /\ ~(breaker[b].expiry < now)

\* C19: while the breaker of a backend is open and still cooling down, no
\* step sends a call to that backend, and the breaker stays as it is.
NoCallWhileCoolingDown ==
  [][\A b \in Backends :
       CoolingDown(b) =>
         /\ inFlight'[b].fresh + inFlight'[b].stale <= Calls(b)
         /\ (now' = now => breaker'[b] = breaker[b])]_vars

\* A call of Verify was rejected by the open breaker of the primary backend
\* during its first cooldown.
CallRejectedDuringCooldown ==
  /\ CoolingDown("moralis")
  /\ now < BreakerTimeout
  /\ lastVerify.result = "panic"

\* A call of the current generation returns from b with an error.
TrialFails(b) ==
  IF b = "moralis" THEN PrimaryReturns(FALSE, "error")
  ELSE SecondaryReturns(FALSE, "error")

\* C20: a half-open breaker admits at most MaxRequests calls, the calls of
\* its generation in flight being among them; it closes only on the success
\* that completes MaxRequests consecutive successes, an open breaker never
\* closes directly, and a failed trial re-opens it.
HalfOpenAdmitsBoundedTrials ==
  /\ [](\A b \in Backends :
         breaker[b].state = "half-open" =>
           /\ breaker[b].requests <= BreakerMaxRequests
           /\ inFlight[b].fresh <= breaker[b].requests)
  /\ [][\A b \in Backends :
         /\ (breaker[b].state = "half-open" /\ breaker'[b].state = "closed"
               => /\ breaker[b].consecutiveSuccesses + 1 = BreakerMaxRequests
                  /\ inFlight[b].fresh > 0)
         /\ (breaker[b].state = "open" => breaker'[b].state # "closed")
         /\ (breaker[b].state = "half-open" /\ TrialFails(b)
               => breaker'[b].state = "open")]_vars

\* The breaker of the primary backend is half-open with all of its
\* MaxRequests trials in flight.
TrialsInFlightAtLimit ==
  /\ breaker["moralis"].state = "half-open"
  /\ inFlight["moralis"].fresh = BreakerMaxRequests

\* C21: a call of Verify that ends with the result of a backend, valid or
\* not, leaves a cached result, and while a result is cached no call of
\* Verify reaches the primary backend.
VerificationOutcomeIsCached ==
  [][/\ (lastVerify' # lastVerify /\ lastVerify'.result \in {"valid", "error"}
          => proofCache')
     /\ (proofCache =>
           inFlight'["moralis"].fresh + inFlight'["moralis"].stale
             <= Calls("moralis"))]_vars

\* The reasons a PaymentFailed message is declared to carry.
PaymentFailedReasons ==
  {"proof.missing", "proof.invalid_format", "insufficient.confirmations",
   "amount.mismatch", "payment.not_complete", "invalid.token",
   "timestamp.expired", "verification.error"}

\* C22: the reason of every 'payment.failed' message is one of the declared
\* reasons.
FailureReasonInClosedEnum ==
  \A e \in Events :
    paymentFailed[e] # "none" => paymentFailed[e] \in PaymentFailedReasons

\* The listing has expired by the clock, whatever its status says.
ListingExpired(id) ==
  listings[id] # NoListing /\ now > listings[id].expiresAt

\* C23: no step stores a fill against a listing that is expired at the time
\* of the step, and no step takes anything out of an expired listing.
NoFillAgainstExpiredListing ==
  [][\A e \in Events :
       /\ Len(fills'[e]) > Len(fills[e]) =>
            LET f == fills'[e][Len(fills'[e])] IN
              f.listingId # "" => ~ListingExpired(f.listingId)
       /\ \A id \in ListingIds :
            ListingExpired(id) =>
              listings'[id].availableAmount >= listings[id].availableAmount]_vars

\* The listing has expired with units available and is still marked as
\* open; one buyer holds a fill made before the expiry, the other none.
ExpiredListingLeftUnfilled ==
  /\ ListingExpired("L1")
  /\ listings["L1"].status \in {"ACTIVE", "PARTIALLY_FILLED"}
  /\ listings["L1"].availableAmount > 0
  /\ \E e \in Events : Len(fills[e]) > 0
  /\ \E e \in Events :
       orderClassified[e].intent = "BUY_MARKET" /\ fills[e] = <<>>

\* C24: in the chain Request, VerificationResult, Fill, JournalPosting,
\* TransferRecord, Receipt, whatever exists for an eventId has its
\* predecessor for that eventId; a TransferRecord of a fill exists only when
\* the journal of that fill is posted.
LifecycleOrdering ==
  /\ \A e \in Events :
       /\ (verificationCache[e] # NoResult \/ e \in orderValidated)
            => request[e] # NoReq
       /\ fills[e] # <<>> => e \in orderValidated
       /\ receipts[e] # <<>> => \E r \in ownershipChanged : r.eventId = e
  /\ \A k \in Keys :
       fireflyLedger[k] # <<>> => fills[k[1]] # <<>>
  /\ \A r \in ownershipChanged : fireflyLedger[KeyOf(r)] # <<>>

\* The reasons a ReconcileFailed message is declared to carry.
ReconcileFailedReasons ==
  {"oracle.verification_failed", "ownership.mismatch", "amount.mismatch",
   "ledger.imbalance", "receipt.generation_failed"}

\* The step is a reconciliation of the transfer record that fails: the
\* oracle is unavailable or does not show the owner, or ledger finalisation
\* or the storing of the receipt fails.
ReconciliationFails(event) ==
  \/ \E answer \in OracleAnswers, failAt \in FloorFailurePoints :
       /\ FloorThrowsAt(event, answer, failAt) # "none"
       /\ FloorManagerProcessOwnershipChanged(event, answer, failAt)
  \/ \E answer \in OracleAnswers, stored \in BOOLEAN :
       /\ answer.unavailable \/ ~stored
       /\ ReconcilerReconcile(event, answer, stored)

\* C25: every step in which a reconciliation fails stores a FAILED receipt
\* with a declared reason for the eventId.
ReconciliationFailureStoresFailedReceipt ==
  [][\A event \in ownershipChanged :
       ReconciliationFails(event) =>
         LET after == receipts'[event.eventId] IN
           /\ Len(after) > Len(receipts[event.eventId])
           /\ after[Len(after)].status = "FAILED"
           /\ after[Len(after)].error \in ReconcileFailedReasons]_vars

\* C26: a delivery whose journal is unbalanced submits nothing to the
\* ledger, stores no reference, emits no 'ledger.posted' and throws; a
\* balanced journal that is posted reaches the ledger line for line.
UnbalancedJournalNeverSubmitted ==
  [][\A event \in paymentConfirmed, o \in CashierOutcomes :
       \A journal \in JournalsOf(event) :
         CashierPostJournal(event, journal, o) =>
           IF ~Balanced(journal)
           THEN /\ fireflyLedger' = fireflyLedger
                /\ fireflyCalls' = fireflyCalls
                /\ postingRef' = postingRef
                /\ ledgerPosted' = ledgerPosted
                /\ cashierThrown'[KeyOf(event)] = "unbalanced"
           ELSE fireflyLedger[KeyOf(event)] = <<>> =>
                  fireflyLedger'[KeyOf(event)] = <<journal>>]_vars

\* The Cashier threw on an unbalanced journal and the ledger has nothing
\* under the key.
UnbalancedJournalRejected ==
  \E k \in Keys :
    /\ cashierThrown[k] = "unbalanced"
    /\ fireflyLedger[k] = <<>>
    /\ fireflyCalls[k] = 0

\* The reasons a TransferFailed message is declared to carry.
TransferFailedReasons ==
  {"locker.unavailable", "policy.denied", "input.invalid",
   "consent.rejected", "consent.timeout", "provider.unavailable",
   "insufficient.balance", "vault.not_found"}

Transient(outcome) == outcome \in {"timeoutExecuted", "timeoutLost"}

PermanentErrorEndsInFailedReceipt ==
  /\ [][\A event \in paymentConfirmed, plan \in AttemptPlans :
         AssetManagerProcessPaymentConfirmed(event, plan) =>
           \A i \in 1..(Len(plan) - 1) : plan[i] # "permanent"]_vars
  /\ \A e \in PipelineEvents :
       (\E m \in MatchIds : transferFailed[<<e, m>>] = "policy.denied")
         ~> HasFailedReceipt(e, "policy.denied")

\* C29: in every step of the Asset Manager for a fill, a transfer record is
\* published only if the custodian has moved the asset of the fill, the
\* asset is moved only if a transfer record is published, and a transfer
\* failure is emitted only if the step moved nothing.
TransferRecordIffAssetMoved ==
  [][\A k \in Keys :
       /\ ownershipPublished'[k] > ownershipPublished[k] => assetMoves'[k] >= 1
       /\ assetMoves'[k] > assetMoves[k] =>
            ownershipPublished'[k] > ownershipPublished[k]
       /\ transferFailed'[k] # transferFailed[k] =>
            assetMoves'[k] = assetMoves[k]]_vars

\* ------------------------------------------------------------------------
\* Specification of treasury issuance: classified BUY_TREASURY orders in
\* the Matching Service, under a running clock and the reservation cleanup.
\* ------------------------------------------------------------------------
TreasuryOrders(e) ==
  [topic : {"order.classified"}, eventId : {e}, intent : {"BUY_TREASURY"},
   amount : 1..MaxOrder, listingId : {""},
   from : {IF e = "e1" THEN "alice" ELSE "bob"}, to : {"treasury"}]

InitTreasury ==
  /\ orderValidated = Events
  /\ paymentFailed = [e \in Events |-> "none"]
  /\ verificationCache = [e \in Events |-> [c \in NOWPaymentsChecks |-> TRUE]]
  /\ orderClassified \in
       {oc \in [Events -> UNION {TreasuryOrders(e) : e \in Events}] :
          \A e \in Events : oc[e].eventId = e}
  /\ request =
       [e \in Events |->
          [kind |-> "req", from |-> orderClassified[e].from,
           to |-> orderClassified[e].to, amount |-> orderClassified[e].amount,
           proof |-> "npmt"]]
  /\ userRegistry = [a \in Accounts |-> "trader"]
  /\ backendPayment = [e \in Events |-> NoPayment]
  /\ InitDualPath
  /\ fills = [e \in Events |-> <<>>]
  /\ matchingThrown = [e \in Events |-> FALSE]
  /\ InitGateway
  /\ InitClient
  /\ paymentConfirmed = {}
  /\ fireflyLedger = [k \in Keys |-> <<>>]
  /\ fireflyCalls = [k \in Keys |-> 0]
  /\ postingRef = [k \in Keys |-> FALSE]
  /\ ledgerPosted = [k \in Keys |-> 0]
  /\ cashierThrown = [k \in Keys |-> "none"]
  /\ custodianKeys = {}
  /\ assetMoves = [k \in Keys |-> 0]
  /\ ownershipChanged = {}
  /\ ownershipPublished = [k \in Keys |-> 0]
  /\ transferFailed = [k \in Keys |-> "none"]
  /\ receipts = [e \in Events |-> <<>>]
  /\ oracleResponse = [e \in Events |-> NoAnswer]
  /\ listings = [l \in ListingIds |-> NoListing]
  /\ allowPartialFills = TRUE
  /\ now = 0

NextTreasury ==
  \/ Matching
  \/ Release
  \/ Tick

SpecTreasury == InitTreasury /\ [][NextTreasury]_vars

TreasuryFills(e) ==
  IF orderClassified[e] # NoMsg /\ orderClassified[e].intent = "BUY_TREASURY"
  THEN {fills[e][m] : m \in 1..Len(fills[e])}
  ELSE {}

\* C30: a delivery of a classified treasury issuance produces one fill,
\* whose buyer is the requester, whose seller is the treasury and whose
\* amount is the requested amount, and a treasury fill carries no
\* reservation lease: it is never a RESERVED reservation whose expiry has
\* elapsed and it is never marked EXPIRED.
TreasuryFillHasNoLease ==
  /\ [][\A e \in Events :
          (/\ orderClassified[e] # NoMsg
           /\ orderClassified[e].intent = "BUY_TREASURY"
           /\ Len(fills'[e]) > Len(fills[e])) =>
            /\ Len(fills'[e]) = Len(fills[e]) + 1
            /\ fills'[e][Len(fills'[e])].buyerId = orderClassified[e].from
            /\ fills'[e][Len(fills'[e])].sellerId = TreasuryUserId
            /\ fills'[e][Len(fills'[e])].fillAmount =
                 orderClassified[e].amount]_vars
  /\ [](\A e \in Events : \A f \in TreasuryFills(e) :
          /\ ~(f.status = "RESERVED" /\ now > f.expiresAt)
          /\ f.status # "EXPIRED")

\* C31: processClassifiedOrder for a SELL_MARKET order whose amount meets
\* the configured minimum creates a new listing in ACTIVE state with the
\* fixed expiry, stores and emits no fill, and does not throw.
SellCreatesListingWithoutFill ==
  [][\A e \in Events :
       (/\ MatchingProcessClassifiedOrder(e)
        /\ orderClassified[e].intent = "SELL_MARKET"
        /\ orderClassified[e].amount >= minAmount
        /\ FreeListingIds(listings) # {}) =>
         /\ \E id \in FreeListingIds(listings) :
              /\ listings'[id] # NoListing
              /\ listings'[id].status = "ACTIVE"
              /\ listings'[id].sellerId = orderClassified[e].from
              /\ listings'[id].expiresAt = now + ListingDuration
         /\ fills'[e] = fills[e]
         /\ ~matchingThrown'[e]]_vars

\* The admitted request of e is one decide() classifies as a direct peer
\* transfer.
IsPeerTransfer(e) ==
  /\ request[e] # NoReq
  /\ decideIntent(ClassifierInput(e).event, ClassifierInput(e).userRegistry)
       = "TRANSFER"

\* C32: a peer transfer that carries no payment proof is not rejected for
\* the missing proof, and the fills of a peer transfer are between the two
\* named parties, for the requested amount and against no listing.
PeerTransferNeedsNoProof ==
  \A e \in Events :
    IsPeerTransfer(e) =>
      /\ request[e].proof = "none" => paymentFailed[e] # "proof.missing"
      /\ \A m \in 1..Len(fills[e]) :
           /\ {fills[e][m].buyerId, fills[e][m].sellerId}
                = {request[e].from, request[e].to}
           /\ fills[e][m].fillAmount = request[e].amount
           /\ fills[e][m].listingId = ""

\* ------------------------------------------------------------------------
\* Specification of the gateway: concurrent calls of submitEventRequest
\* for one eventId, each checking idempotency and then storing.
\* ------------------------------------------------------------------------
\* hashBody: a digest of the serialised body, distinct for distinct bodies.
hashBody(body) == <<body.from, body.to, body.amount, body.proof>>

GatewayBodies == {r \in Requests : r.proof = "npmt"}

\* event_ingress with UNIQUE(event_id, body_hash) as its only constraint.
UniqueBodyHashFree(table, e, body) ==
  table[e] = NoReq \/ hashBody(table[e]) # hashBody(body)

\* event_ingress accepts a row for the eventId: event_id is its PRIMARY KEY.
PrimaryKeyFree(table, e, body) == table[e] = NoReq

Answer(call, status, admitted, raced) ==
  [stage |-> "answered", eventId |-> call.eventId, body |-> call.body,
   status |-> status, admitted |-> admitted, raced |-> raced]

\* The answer to a submission that finds a row of its eventId: 202 for the
\* same body hash, 409 for a different one.
DuplicateAnswer(call, row, raced) ==
  Answer(call, IF hashBody(row) = hashBody(call.body) THEN 202 ELSE 409,
         FALSE, raced)

\* A client submits an event request.
Submit(c, e, body) ==
  /\ ingressCalls[c] = NoCall
  /\ ingressCalls' =
       [ingressCalls EXCEPT ![c] =
          [stage |-> "received", eventId |-> e, body |-> body]]
  /\ UNCHANGED <<request, orderReceived, clientVars, orderValidated,
                 paymentFailed,
                 verificationCache, orderClassified, userRegistry,
                 verifierVars, matchVars, paymentConfirmed, cashierVars,
                 assetVars, floorVars, listingVars, now>>

\* Logic 3 and 9: the check of idempotency by (eventId, body_hash).
CheckIdempotency(c) ==
  /\ ingressCalls[c].stage = "received"
  /\ LET call == ingressCalls[c]
         row == request[call.eventId]
     IN ingressCalls' =
          [ingressCalls EXCEPT ![c] =
             IF row = NoReq THEN [call EXCEPT !.stage = "new"]
             ELSE DuplicateAnswer(call, row, FALSE)]
  /\ UNCHANGED <<request, orderReceived, clientVars, orderValidated,
                 paymentFailed,
                 verificationCache, orderClassified, userRegistry,
                 verifierVars, matchVars, paymentConfirmed, cashierVars,
                 assetVars, floorVars, listingVars, now>>

\* Logic 4 to 8: a first-seen request is persisted to event_ingress and
\* written to the outbox in one transaction, and answered 202.  An insert
\* the table refuses is answered as a duplicate.
Store(c) ==
  /\ ingressCalls[c].stage = "new"
  /\ LET call == ingressCalls[c]
         e == call.eventId
     IN IF PrimaryKeyFree(request, e, call.body)
        THEN /\ request' = [request EXCEPT ![e] = call.body]
             /\ orderReceived' =
                  [orderReceived EXCEPT ![e] = Append(@, call.body)]
             /\ ingressCalls' =
                  [ingressCalls EXCEPT ![c] = Answer(call, 202, TRUE, FALSE)]
        ELSE /\ ingressCalls' =
                  [ingressCalls EXCEPT ![c] =
                     DuplicateAnswer(call, request[e], TRUE)]
             /\ UNCHANGED <<request, orderReceived>>
  /\ UNCHANGED <<clientVars, orderValidated, paymentFailed, verificationCache,
                 orderClassified, userRegistry, verifierVars, matchVars,
                 paymentConfirmed, cashierVars, assetVars, floorVars,
                 listingVars, now>>

Submission ==
  \E c \in Submitters, e \in PipelineEvents, body \in GatewayBodies :
    Submit(c, e, body)

IdempotencyCheck == \E c \in Submitters : CheckIdempotency(c)

Persisting == \E c \in Submitters : Store(c)

NextGateway ==
  \/ Submission
  \/ IdempotencyCheck
  \/ Persisting

SpecGateway == Init /\ [][NextGateway]_vars

Answered == {c \in Submitters : ingressCalls[c].stage = "answered"}

McpServers == {"full", "simplified"}

\* The tools of each server that write to the Marketplace API.
WriteTools(server) ==
  IF server = "full"
  THEN {"species_create_transaction", "species_create_listing"}
  ELSE {"species_create_transaction"}

\* What the user does with a request for confirmation.
ConfirmationAnswers == {"confirmed", "declined", "timedOut"}

\* ConfirmationManager.requestConfirmation: true only for a confirmation
\* given before the timeout.
requestConfirmation(answer) == answer = "confirmed"

Posted(c, server, tool, confirmation) ==
  [caller |-> c, server |-> server, tool |-> tool,
   confirmation |-> confirmation]

OtherClientVarsUnchanged ==
  UNCHANGED <<request, gatewayVars, orderValidated, paymentFailed,
              verificationCache, orderClassified, userRegistry,
              verifierVars, matchVars, paymentConfirmed, cashierVars,
              assetVars, floorVars, listingVars, now>>

\* The full server: handleCreateTransaction and handleCreateListing up to
\* the request for confirmation.  A listing below the minimum amount is
\* refused before the user is asked.
FullServerToolCall(c, tool, amount) ==
  /\ mcpCalls[c] = NoToolCall
  /\ tool \in WriteTools("full")
  /\ mcpCalls' =
       [mcpCalls EXCEPT ![c] =
          [stage |-> IF tool = "species_create_listing" /\ amount < minAmount
                     THEN "thrown" ELSE "confirming",
           server |-> "full", tool |-> tool]]
  /\ UNCHANGED mcpPosted
  /\ OtherClientVarsUnchanged

\* The full server after requestConfirmation returned: the request is sent
\* when it returned true, and the handler throws when it returned false.
FullServerConfirmation(c, answer) ==
  /\ mcpCalls[c].stage = "confirming"
  /\ IF requestConfirmation(answer)
     THEN /\ mcpPosted' =
               mcpPosted \cup {Posted(c, "full", mcpCalls[c].tool, answer)}
          /\ mcpCalls' = [mcpCalls EXCEPT ![c].stage = "sent"]
     ELSE /\ mcpCalls' = [mcpCalls EXCEPT ![c].stage = "thrown"]
          /\ UNCHANGED mcpPosted
  /\ OtherClientVarsUnchanged

\* The simplified server: handleCreateTransaction throws without
\* credentials, and otherwise builds the event request and posts it.
SimplifiedServerToolCall(c, configured) ==
  /\ mcpCalls[c] = NoToolCall
  /\ IF ~configured
     THEN /\ mcpCalls' =
               [mcpCalls EXCEPT ![c] =
                  [stage |-> "thrown", server |-> "simplified",
                   tool |-> "species_create_transaction"]]
          /\ UNCHANGED mcpPosted
     ELSE /\ mcpPosted' =
               mcpPosted \cup
                 {Posted(c, "simplified", "species_create_transaction",
                         "none")}
          /\ mcpCalls' =
               [mcpCalls EXCEPT ![c] =
                  [stage |-> "sent", server |-> "simplified",
                   tool |-> "species_create_transaction"]]
  /\ OtherClientVarsUnchanged

FullToolCall ==
  \E c \in ToolCallers, tool \in WriteTools("full"), amount \in 1..MaxOrder :
    FullServerToolCall(c, tool, amount)

UserAnswer ==
  \E c \in ToolCallers, answer \in ConfirmationAnswers :
    FullServerConfirmation(c, answer)

SimplifiedToolCall ==
  \E c \in ToolCallers, configured \in BOOLEAN :
    SimplifiedServerToolCall(c, configured)

NextClient ==
  \/ FullToolCall
  \/ UserAnswer
  \/ SimplifiedToolCall

SpecClient == Init /\ [][NextClient]_vars

\* C34: every request an MCP server sends to the Marketplace API for a
\* write tool was sent under a confirmation of the user, and a tool call
\* whose confirmation was declined or timed out has sent nothing.
WritesRequireConfirmation ==
  /\ \A p \in mcpPosted : p.confirmation = "confirmed"
  /\ \A c \in ToolCallers :
       mcpCalls[c].stage = "thrown" =>
         \A p \in mcpPosted : p.caller # c

\* ------------------------------------------------------------------------
\* Specification of proof reuse: two requests that carry the same payment
\* proof, verified by validatePaymentProof or by DualPathValidator.Verify.
\* ------------------------------------------------------------------------
\* Requests that pay with one and the same NOWPayments payment id.
SameProofRequests ==
  [kind : {"req"}, from : {"alice"}, to : {"treasury"},
   amount : 1..MaxOrder, proof : {"npmt"}]

InitProofReuse ==
  /\ request \in [Events -> SameProofRequests]
  /\ backendPayment \in {[e \in Events |-> p] : p \in NOWPayments}
  /\ InitDualPath
  /\ orderValidated = {}
  /\ paymentFailed = [e \in Events |-> "none"]
  /\ verificationCache = [e \in Events |-> NoResult]
  /\ orderClassified = [e \in Events |-> NoMsg]
  /\ userRegistry = [a \in Accounts |-> "trader"]
  /\ fills = [e \in Events |-> <<>>]
  /\ matchingThrown = [e \in Events |-> FALSE]
  /\ InitGateway
  /\ InitClient
  /\ paymentConfirmed = {}
  /\ fireflyLedger = [k \in Keys |-> <<>>]
  /\ fireflyCalls = [k \in Keys |-> 0]
  /\ postingRef = [k \in Keys |-> FALSE]
  /\ ledgerPosted = [k \in Keys |-> 0]
  /\ cashierThrown = [k \in Keys |-> "none"]
  /\ custodianKeys = {}
  /\ assetMoves = [k \in Keys |-> 0]
  /\ ownershipChanged = {}
  /\ ownershipPublished = [k \in Keys |-> 0]
  /\ transferFailed = [k \in Keys |-> "none"]
  /\ receipts = [e \in Events |-> <<>>]
  /\ oracleResponse = [e \in Events |-> NoAnswer]
  /\ listings = [l \in ListingIds |-> NoListing]
  /\ allowPartialFills = TRUE
  /\ now = 0

\* DualPathValidator.Verify for the request of e, run alone with both
\* breakers closed: a result cached under proof and chain is returned
\* whatever the expected amount, a valid result of a backend is cached and
\* returned, and anything else is an error.
DualPathVerify(e) ==
  /\ e \notin orderValidated
  /\ paymentFailed[e] = "none"
  /\ LET valid ==
           VerificationValid(
             VerificationResultOf(request[e], backendPayment[e]))
     IN IF proofCache \/ valid
        THEN /\ orderValidated' = orderValidated \cup {e}
             /\ proofCache' = TRUE
             /\ UNCHANGED paymentFailed
        ELSE /\ paymentFailed' =
                  [paymentFailed EXCEPT ![e] = "verification.error"]
             /\ UNCHANGED <<orderValidated, proofCache>>
  /\ UNCHANGED <<request, gatewayVars, clientVars, verificationCache,
                 orderClassified, userRegistry, backendPayment, breaker,
                 inFlight, lastVerify, matchVars, paymentConfirmed,
                 cashierVars, assetVars, floorVars, listingVars, now>>

NextProofReuse ==
  \/ \E e \in Events : ValidatorVerify(e)
  \/ \E e \in Events : DualPathVerify(e)

SpecProofReuse == InitProofReuse /\ [][NextProofReuse]_vars

\* C35: no two validated requests carry the same payment proof, and a
\* request is validated only if the payment the proof names was made for
\* the amount the request expects.
ProofSettlesOneRequest ==
  /\ \A e1, e2 \in orderValidated :
       request[e1].proof = request[e2].proof => e1 = e2
  /\ \A e \in orderValidated :
       backendPayment[e].price_amount = ExpectedAmount(request[e])

\* ------------------------------------------------------------------------
\* Specification of re-delivery to the Matching Service: each classified
\* treasury order is delivered up to MaxDeliveries times, under a running
\* clock.
\* ------------------------------------------------------------------------
Redelivery == \E e \in Events : processClassifiedOrder(e, MaxDeliveries)

NextRedelivery ==
  \/ Redelivery
  \/ Tick

SpecRedelivery == InitTreasury /\ [][NextRedelivery]_vars

MatchIdsOf(fs) == {fs[m].matchId : m \in 1..Len(fs)}

\* C36: a delivery of the classified order of an eventId that already has
\* fills creates no further fill and leaves the matchIds of the eventId as
\* they were.
RedeliveryCreatesNoFill ==
  [][\A e \in Events :
       fills[e] # <<>> =>
         /\ Len(fills'[e]) = Len(fills[e])
         /\ MatchIdsOf(fills'[e]) = MatchIdsOf(fills[e])]_vars

\* The lines of the journals posted under one key, in posting order.
RECURSIVE JournalLines(_)
JournalLines(journals) ==
  IF journals = <<>> THEN <<>>
  ELSE Head(journals).lines \o JournalLines(Tail(journals))

\* What the lines add up to on one account: debits less credits.
RECURSIVE NetOf(_, _)
NetOf(lines, account) ==
  IF lines = <<>> THEN 0
  ELSE (IF Head(lines).account # account THEN 0
        ELSE IF Head(lines).side = "Dr" THEN Head(lines).amount
        ELSE 0 - Head(lines).amount)
       + NetOf(Tail(lines), account)

\* The postings under the key leave a balance on some account: no posting
\* offsets what was posted.
NetLedgerEffect(k) ==
  LET lines == JournalLines(fireflyLedger[k]) IN
    \E i \in 1..Len(lines) : NetOf(lines, lines[i].account) # 0

\* C37: when the transfer of a fill has ended in a typed failure and the
\* journal of the fill is posted, the posting is eventually offset by a
\* reversing posting, unless the asset is moved after all.
SettlementAllOrNothing ==
  \A e \in PipelineEvents, m \in MatchIds :
    (transferFailed[<<e, m>>] # "none" /\ NetLedgerEffect(<<e, m>>))
      ~> (~NetLedgerEffect(<<e, m>>) \/ assetMoves[<<e, m>>] >= 1)

\* C38: a step in which the primary backend returns a definitive invalid
\* verdict sends no call to the secondary backend, so that no answer of the
\* secondary can overturn the verdict.
SecondaryOnlyOnPrimaryFailure ==
  [][\A stale \in BOOLEAN :
       PrimaryReturns(stale, "invalid") =>
         inFlight'["nowpayments"].fresh + inFlight'["nowpayments"].stale
           <= Calls("nowpayments")]_vars

\* C39: a call of Verify that ends while the breaker of a backend rejects
\* calls ends in a result from the cache, in a valid result of the other
\* backend or in the verification error, never in anything else.
OpenBreakerLeavesOutcomeDefined ==
  [][\A b \in Backends :
       (~beforeRequest(breaker[b], now).ok /\ lastVerify' # lastVerify) =>
         lastVerify'.result \in {"cached", "valid", "error"}]_vars

\* ------------------------------------------------------------------------
\* Specification of tripping: one breaker from each constructor of the
\* repository, counting the calls made through it one after another.
\* ------------------------------------------------------------------------
BreakerConstructors == {"NewCircuitBreaker", "NewBreaker"}

\* gobreaker.Counts of a new generation of a closed breaker.
NoCounts ==
  [state |-> "closed", requests |-> 0, totalFailures |-> 0,
   consecutiveFailures |-> 0]

\* ReadyToTrip of NewCircuitBreaker:
\* counts.Requests >= MinRequests
\*   && ConsecutiveFailures / Requests >= FailureRatio
ReadyToTripConsecutive(counts) ==
  /\ counts.requests >= BreakerMinRequests
  /\ counts.consecutiveFailures * FailureRatioDen
       >= counts.requests * FailureRatioNum

ReadyToTripOf(constructor, counts) ==
  IF constructor = "NewBreaker" THEN ReadyToTrip(counts)
  ELSE ReadyToTripConsecutive(counts)

\* onRequest followed by onSuccess or onFailure.
Counted(counts, success) ==
  [counts EXCEPT !.requests = @ + 1,
                 !.totalFailures = IF success THEN @ ELSE @ + 1,
                 !.consecutiveFailures = IF success THEN 0 ELSE @ + 1]

InitTrip ==
  /\ breaker = [c \in BreakerConstructors |-> NoCounts]
  /\ inFlight = [b \in Backends |-> NoCalls]
  /\ proofCache = FALSE
  /\ lastVerify = Ended("none", FALSE)
  /\ request = [e \in Events |-> NoReq]
  /\ orderValidated = {}
  /\ paymentFailed = [e \in Events |-> "none"]
  /\ verificationCache = [e \in Events |-> NoResult]
  /\ orderClassified = [e \in Events |-> NoMsg]
  /\ userRegistry = [a \in Accounts |-> "trader"]
  /\ backendPayment = [e \in Events |-> NoPayment]
  /\ fills = [e \in Events |-> <<>>]
  /\ matchingThrown = [e \in Events |-> FALSE]
  /\ InitGateway
  /\ InitClient
  /\ paymentConfirmed = {}
  /\ fireflyLedger = [k \in Keys |-> <<>>]
  /\ fireflyCalls = [k \in Keys |-> 0]
  /\ postingRef = [k \in Keys |-> FALSE]
  /\ ledgerPosted = [k \in Keys |-> 0]
  /\ cashierThrown = [k \in Keys |-> "none"]
  /\ custodianKeys = {}
  /\ assetMoves = [k \in Keys |-> 0]
  /\ ownershipChanged = {}
  /\ ownershipPublished = [k \in Keys |-> 0]
  /\ transferFailed = [k \in Keys |-> "none"]
  /\ receipts = [e \in Events |-> <<>>]
  /\ oracleResponse = [e \in Events |-> NoAnswer]
  /\ listings = [l \in ListingIds |-> NoListing]
  /\ allowPartialFills = TRUE
  /\ now = 0

OtherBreakerVarsUnchanged ==
  UNCHANGED <<request, gatewayVars, clientVars, orderValidated,
              paymentFailed, verificationCache, orderClassified,
              userRegistry, backendPayment, inFlight, proofCache,
              lastVerify, matchVars, paymentConfirmed, cashierVars,
              assetVars, floorVars, listingVars, now>>

\* A call through a closed breaker: it is counted with its outcome, and a
\* failure that makes ReadyToTrip true opens the breaker.
BreakerCall(c, success) ==
  /\ breaker[c].state = "closed"
  /\ breaker[c].requests < MaxCounted
  /\ LET counted == Counted(breaker[c], success) IN
       breaker' =
         [breaker EXCEPT ![c] =
            IF ~success /\ ReadyToTripOf(c, counted)
            THEN [NoCounts EXCEPT !.state = "open"]
            ELSE counted]
  /\ OtherBreakerVarsUnchanged

\* The Interval of a closed breaker elapses: its counts are cleared.
IntervalElapses(c) ==
  /\ breaker[c].state = "closed"
  /\ breaker[c].requests > 0
  /\ breaker' = [breaker EXCEPT ![c] = NoCounts]
  /\ OtherBreakerVarsUnchanged

NextTrip ==
  \/ \E c \in BreakerConstructors, success \in BOOLEAN :
       BreakerCall(c, success)
  \/ \E c \in BreakerConstructors : IntervalElapses(c)

SpecTrip == InitTrip /\ [][NextTrip]_vars

\* C40: a failed call through a closed breaker opens it exactly when, with
\* that call counted, the requests of the window have reached the minimum
\* and the failed requests are at least the failure ratio of the requests,
\* whatever the order of the failures.
TripsOnFailureRatio ==
  [][\A c \in BreakerConstructors :
       BreakerCall(c, FALSE) =>
         (breaker'[c].state = "open" <=>
            /\ breaker[c].requests + 1 >= BreakerMinRequests
            /\ (breaker[c].totalFailures + 1) * FailureRatioDen
                 >= (breaker[c].requests + 1) * FailureRatioNum)]_vars

====
